---- MODULE Spec2Model ----
(***************************************************************************)
(* Model of the libssh-0.5.2 protocol engine bundled with BeagleTerm:      *)
(* the client handshake (client.c, stored as src/.../src/options.c from    *)
(* line 1180 on) and the channel layer (channels.c, stored as              *)
(* src/.../include/libssh/libcrypto.h from line 77 on).                    *)
(***************************************************************************)
EXTENDS Integers, Sequences, FiniteSets, TLC

(***************************************************************************)
(* Bounds of the model.                                                    *)
(***************************************************************************)
\* number of inbound transport packets one connection attempt may receive
MaxInbound == 4
\* longest identification data handed to the banner receiver
MaxBannerLen == 131
\* width in bits of the model's uint32_t (the code's is 32; TLC integers
\* cannot hold 2^32, all unsigned arithmetic is taken modulo 2^U32Bits)
U32Bits == 4
\* longest payload of a channel write
MaxLen == 5
\* largest remote window advertised in OPEN_CONFIRMATION
MaxWin == 2
\* the outbound packet counter is kept modulo SeqMod
SeqMod == 2
\* the largest number of bytes an inbound DATA message carries
MaxData == 2
\* the largest number of bytes the peer sends on one stream
MaxStream == 2
\* the most channels a session's table holds at once
MaxChannels == 2
\* the most local channel numbers one session hands out
MaxOpens == 3
\* the most inbound messages dispatched on the channel table
MaxMessages == 3
\* the most fields the output buffer is let to hold
MaxOutBuffer == 5
\* the most descriptors one select(2) reports ready
MaxReady == 4
\* ssh_connect calls on a session that was connected before
MaxConnects == 1
\* the descriptors the process can hold open
MaxFds == 3

(***************************************************************************)
(* Program constants.                                                      *)
(***************************************************************************)
\* client.c: if(i>127) "too large banner"
BannerLimit == 127
\* channels.c: maxpacketlen = channel->remote_maxpacket - 10
HeaderAllowance == 10
\* the window the library keeps open for the peer, and the level under
\* which it raises it again
WINDOWBASE == 1280000
WINDOWLIMIT == WINDOWBASE \div 2
\* the window ssh_channel_open_session asks channel_open to advertise
CHANNEL_INITIAL_WINDOW == 64000
\* a stream buffer that was freed (a NULL ssh_buffer)
NoBuffer == -1

SSH_OK == "SSH_OK"
SSH_ERROR == "SSH_ERROR"
SSH_AGAIN == "SSH_AGAIN"
NULL == "NULL"

U32Mod == 2 ^ U32Bits
INT_MAX == (U32Mod \div 2) - 1

VARIABLES
  session,      \* struct ssh_session_struct: the fields the handshake uses
  blocking,     \* ssh_is_blocking(session)
  pc,           \* where the application is: "caller" or inside "connect"
  connect_rc,   \* what the last ssh_connect call returned
  in_data,      \* bytes the socket holds for the data callback
  banner_buf,   \* the buffer the last callback_receive_banner call was given
  banner_ret,   \* what the last callback_receive_banner call returned
  nrecv,        \* inbound packets dispatched so far
  sshbind,      \* struct ssh_bind_struct: bindfd, and whether it was freed
  fds,          \* the descriptors of the process: which are open, closes seen
  terminal,     \* SSHTerminal: m_channel, m_session and the last result
  channel,      \* struct ssh_channel_struct
  w,            \* the activation record of channel_write_common
  sent_data,    \* concatenation of the data fields of the segments that
                \* the current (or last) channel write sent
  out_pkt,      \* the last channel packet handed to packet_send
  send_seq,     \* session->send_seq, the outbound packet counter
  call,         \* the activation record of the channel call in progress
                \* (open, read, poll, send_eof, close, request), or of
                \* the last one that returned
  hist          \* what the peer has been told and has sent on the channel

appvars == <<sshbind, fds, terminal>>

vars == <<session, blocking, pc, connect_rc, in_data, banner_buf, banner_ret,
          nrecv, appvars, channel, w, sent_data, out_pkt, send_seq, call, hist>>

kexvars == <<session, blocking, pc, connect_rc, in_data, banner_buf,
             banner_ret, nrecv, appvars>>
chanvars == <<channel, w, sent_data, out_pkt, send_seq>>
callvars == <<call, hist>>

Min(a, b) == IF a < b THEN a ELSE b

(***************************************************************************)
(* History of the handshake: what was sent, received, verified, swapped.   *)
(* k is the cryptographic context (0 = none, packets in clear) in use.     *)
(***************************************************************************)
Ev(e, t, k) == [e |-> e, t |-> t, k |-> k]

(***************************************************************************)
(* The outcomes of the collaborators one handler run may meet.             *)
(***************************************************************************)
Envs == [alloc : BOOLEAN,    \* strdup / buffer_add_* / crypto_new succeed
         nego  : BOOLEAN,    \* ssh_analyze_banner, set_kex, ssh_send_kex
         keys  : BOOLEAN,    \* dh_generate_*, dh_import_f, make_sessionid,
                             \* crypt_set_algorithms, generate_session_keys
         buildk : BOOLEAN,   \* dh_build_k
         send  : BOOLEAN]    \* packet_send does not return SSH_ERROR

\* packet_send: frames the packet with the current context and writes it
packet_send(s, type, ok) ==
  IF ok THEN [s EXCEPT !.trace = Append(@, Ev("send", type, s.current_crypto))]
        ELSE s

\* signature_verify: accepts only a valid host-key signature
signature_verify(sig) == sig = "good"

\* dh_handshake: returns the session and the return code
dh_handshake(s, env) ==
  CASE s.dh_handshake_state = "INIT" ->
         IF ~env.alloc \/ ~env.keys
           THEN [s |-> s, rc |-> SSH_ERROR]
         ELSE IF ~env.send
           THEN [s |-> s, rc |-> SSH_ERROR]
         ELSE [s |-> [packet_send(s, "KEXDH_INIT", TRUE)
                        EXCEPT !.dh_handshake_state = "INIT_SENT"],
               rc |-> SSH_AGAIN]
    [] s.dh_handshake_state \in {"INIT_SENT", "NEWKEYS_SENT"} ->
         [s |-> s, rc |-> SSH_AGAIN]
    [] s.dh_handshake_state = "FINISHED" ->
         [s |-> s, rc |-> SSH_OK]

\* the error label of ssh_client_connection_callback
connection_error(s) ==
  [s EXCEPT !.socket = "closed", !.alive = 0, !.session_state = "ERROR"]

\* a connection_dh that does not look at the DH sub-state
connection_dh_unchecked(s) ==
  [s EXCEPT !.connected = 1, !.session_state = "AUTHENTICATING"]

\* case SSH_SESSION_STATE_DH of ssh_client_connection_callback
connection_dh(s) ==
  IF s.dh_handshake_state = "FINISHED"
    THEN [s EXCEPT !.connected = 1, !.session_state = "AUTHENTICATING"]
    ELSE s

ssh_client_connection_callback(s, env) ==
  CASE s.session_state \in {"NONE", "CONNECTING", "SOCKET_CONNECTED"} -> s
    [] s.session_state = "BANNER_RECEIVED" ->
         IF s.serverbanner = NULL \/ ~env.nego
           THEN connection_error(s)
           ELSE [s EXCEPT !.data_callback = "packet",
                          !.session_state = "INITIAL_KEX"]
    [] s.session_state = "INITIAL_KEX" -> s
    [] s.session_state = "KEXINIT_RECEIVED" ->
         IF ~env.nego
           THEN connection_error(s)
           ELSE LET s1 == [packet_send(s, "KEXINIT", TRUE)
                             EXCEPT !.session_state = "DH"]
                    r  == dh_handshake(s1, env)
                IN  IF r.rc = SSH_ERROR THEN connection_error(r.s)
                                        ELSE connection_dh(r.s)
    [] s.session_state = "DH" -> connection_dh(s)
    [] s.session_state = "AUTHENTICATING" -> s
    [] s.session_state = "ERROR" -> connection_error(s)
    [] OTHER -> s

socket_callback_connected(s, code, env) ==
  IF s.session_state # "CONNECTING" THEN s
  ELSE ssh_client_connection_callback(
         [s EXCEPT !.session_state =
            IF code = "OK" THEN "SOCKET_CONNECTED" ELSE "ERROR"], env)

\* a banner_scan whose limit test is off by one
banner_scan_early(buffer) ==
  LET stops == {i \in 0..(Len(buffer) - 1) :
                  buffer[i + 1] = "\n" \/ i >= BannerLimit}
  IN  IF stops = {} THEN [ret |-> 0, st |-> "same"]
      ELSE LET i == CHOOSE m \in stops : \A n \in stops : m <= n
           IN  IF buffer[i + 1] = "\n"
                 THEN [ret |-> i + 1, st |-> "BANNER_RECEIVED"]
                 ELSE [ret |-> 0, st |-> "ERROR"]

\* the for loop of callback_receive_banner: it leaves at the first index i
\* (0-based) that holds a newline or lies beyond the limit, the newline
\* being tested first
banner_scan(buffer) ==
  LET stops == {i \in 0..(Len(buffer) - 1) :
                  buffer[i + 1] = "\n" \/ i > BannerLimit}
  IN  IF stops = {} THEN [ret |-> 0, st |-> "same"]
      ELSE LET i == CHOOSE m \in stops : \A n \in stops : m <= n
           IN  IF buffer[i + 1] = "\n"
                 THEN [ret |-> i + 1, st |-> "BANNER_RECEIVED"]
                 ELSE [ret |-> 0, st |-> "ERROR"]

\* callback_receive_banner: returns the session and the bytes processed
callback_receive_banner(s, buffer, env) ==
  IF s.session_state # "SOCKET_CONNECTED"
    THEN [s |-> s, ret |-> -1]
  ELSE LET r == banner_scan(buffer)
       IN  CASE r.st = "BANNER_RECEIVED" ->
                  [s |-> ssh_client_connection_callback(
                           [s EXCEPT !.serverbanner =
                                       IF env.alloc THEN "set" ELSE NULL,
                                     !.session_state = "BANNER_RECEIVED",
                                     !.trace = Append(@, Ev("banner", "", 0))],
                           env),
                   ret |-> r.ret]
             [] r.st = "ERROR" ->
                  [s |-> [s EXCEPT !.session_state = "ERROR"], ret |-> 0]
             [] OTHER -> [s |-> s, ret |-> r.ret]

\* the error label of ssh_packet_dh_reply and of ssh_packet_newkeys
packet_error(s) == [s EXCEPT !.session_state = "ERROR"]

\* pkt.fields tells which of pubkey, f, signature the packet holds
ssh_packet_dh_reply(s, pkt, env) ==
  IF s.session_state # "DH" /\ s.dh_handshake_state # "INIT_SENT"
    THEN packet_error(s)
  ELSE IF pkt.fields = "none" THEN packet_error(s)
  ELSE IF pkt.fields = "pubkey" \/ ~env.keys THEN packet_error(s)
  ELSE IF pkt.fields = "pubkey_f" THEN packet_error(s)
  ELSE LET s1 == [s EXCEPT !.dh_server_signature = pkt.sig]
       IN  IF ~env.buildk \/ ~env.alloc THEN packet_error(s1)
           ELSE [packet_send(s1, "NEWKEYS", env.send)
                   EXCEPT !.dh_handshake_state = "NEWKEYS_SENT"]

\* ssh_packet_newkeys from "Once we got SSH2_MSG_NEWKEYS we can switch" on
newkeys_switch(s, env) ==
  LET s2 == [s EXCEPT !.current_crypto = s.next_crypto,
                      !.trace = Append(@, Ev("swap", "", s.next_crypto))]
  IN  IF ~env.alloc
        THEN packet_error([s2 EXCEPT !.next_crypto = 0])
        ELSE ssh_client_connection_callback(
               [s2 EXCEPT !.next_crypto = s.next_crypto + 1,
                          !.dh_handshake_state = "FINISHED"],
               env)

\* a newkeys_verified that goes on when the verification failed
newkeys_verified_unchecked(s, ok, env) == newkeys_switch(s, env)

\* ssh_packet_newkeys: if (signature_verify(session, signature)) goto error
newkeys_verified(s, ok, env) ==
  IF ~ok THEN packet_error(s) ELSE newkeys_switch(s, env)

ssh_packet_newkeys(s, env) ==
  IF s.session_state # "DH" /\ s.dh_handshake_state # "NEWKEYS_SENT"
    THEN packet_error(s)
  ELSE IF ~env.keys THEN packet_error(s)
  ELSE LET signature == s.dh_server_signature
           ok == signature_verify(signature)
           s1 == [s EXCEPT !.dh_server_signature = NULL,
                           !.trace = Append(@, Ev("verify",
                                       IF ok THEN "ok" ELSE "fail", 0))]
       IN  newkeys_verified(s1, ok, env)

\* ssh_packet_kexinit: the peer's algorithm lists arrive
ssh_packet_kexinit(s, env) ==
  IF s.session_state # "INITIAL_KEX" THEN packet_error(s)
  ELSE ssh_client_connection_callback(
         [s EXCEPT !.session_state = "KEXINIT_RECEIVED"], env)

\* a termination test that leaves DISCONNECTED out
ssh_connect_termination_live(s) ==
  s.session_state \in {"ERROR", "AUTHENTICATING"}

ssh_connect_termination(s) ==
  s.session_state \in {"ERROR", "AUTHENTICATING", "DISCONNECTED"}

\* ssh_disconnect, for the fields the handshake uses
ssh_disconnect(s, env) ==
  LET s1 == IF s.socket # "closed" /\ env.alloc
              THEN [packet_send(s, "DISCONNECT", env.send)
                      EXCEPT !.socket = "closed"]
              ELSE s
  IN  [s1 EXCEPT !.alive = 0, !.socket = "closed",
                 !.session_state = "DISCONNECTED",
                 !.current_crypto = 0, !.serverbanner = NULL]

(***************************************************************************)
(* State after ssh_new().                                                  *)
(***************************************************************************)
NewSession ==
  [session_state |-> "NONE", dh_handshake_state |-> "INIT",
   alive |-> 0, connected |-> 0, socket |-> "closed",
   data_callback |-> "banner", pending_call_state |-> "NONE",
   current_crypto |-> 0, next_crypto |-> 1,
   dh_server_signature |-> NULL, serverbanner |-> NULL, trace |-> <<>>,
   global_req_state |-> "NONE", maxchannel |-> 0, channels |-> <<>>,
   error |-> "none", out_buffer |-> 0]

NoChannel ==
  [state |-> "NOT_OPEN", local_eof |-> 0, delayed_close |-> 0,
   remote_window |-> 0, remote_maxpacket |-> 0,
   remote_channel |-> 0, local_window |-> 0, remote_eof |-> 0,
   stdout_buffer |-> 0, stderr_buffer |-> 0,
   request_state |-> "NONE", callbacks |-> FALSE]

\* no channel call other than a write is in progress, none has returned
NoCall ==
  [fn |-> "none", pc |-> "idle", rc |-> 0, count |-> 0, is_stderr |-> 0,
   reply |-> 0, polled |-> FALSE, how |-> "none",
   lists |-> {}, out |-> {}, finite |-> FALSE, avail |-> FALSE,
   set |-> FALSE]

\* nothing was advertised, sent or received on the channel yet
NoHist ==
  [advertised |-> 0, received |-> 0, counted |-> 0,
   eof_msgs |-> 0, eof_ok |-> FALSE, close_msgs |-> 0, close_early |-> FALSE,
   nested |-> "none", reply |-> "none", conf |-> <<>>, denied |-> FALSE,
   ids |-> {}, resolved |-> 0, msgs |-> 0,
   waited |-> FALSE, select |-> [rc |-> 0, errno |-> "none"],
   connects |-> 0, eof_read |-> {}]

CallIdle ==
  /\ call = NoCall
  /\ hist = NoHist

\* no channel call is in progress and none has returned yet
NoWrite ==
  [pc |-> "idle", data |-> <<>>, len |-> 0, origlen |-> 0, is_stderr |-> 0,
   maxpacketlen |-> 0, polled |-> FALSE, rc |-> 0, how |-> "none"]

NoPacket == [type |-> "NONE", len |-> 0]

ChanIdle ==
  /\ channel = NoChannel
  /\ w = NoWrite
  /\ sent_data = <<>>
  /\ out_pkt = NoPacket
  /\ send_seq = 0

\* SSH_INVALID_SOCKET of libssh.h
SSH_INVALID_SOCKET == -1

\* ssh_bind_new: ptr->bindfd = SSH_INVALID_SOCKET
NoBind ==
  [bindfd |-> SSH_INVALID_SOCKET, freed |-> FALSE, rc |-> 0, how |-> "none"]

\* the descriptor table: no descriptor is open; listening are the sockets
\* listen(2) succeeded on, app the descriptors the application opened
\* itself, ebadf tells that close(2) was called on a descriptor that was
\* not open, stolen that ssh_bind_free closed a descriptor of the
\* application
NoFds ==
  [open |-> {}, listening |-> {}, app |-> {}, ebadf |-> FALSE,
   stolen |-> FALSE]

\* SSHTerminal(): m_channel(new ssh::Channel(m_session)), no connection.
\* m_channel is "object" or "null"; c_channel tells whether the ssh_channel
\* the object wraps is "valid" or "freed"; open and eof are what isOpen()
\* and isEof() answer; fn, refusable and rc describe the last call: the
\* method, whether the channel was absent, not open or at EOF when it was
\* made, and what it returned; fault is "null" or "freed" once a method
\* went through a null m_channel or a freed ssh_channel
NoTerminal ==
  [m_channel |-> "object", c_channel |-> "valid", connected |-> FALSE,
   open |-> FALSE, eof |-> FALSE, fn |-> "none", refusable |-> FALSE,
   rc |-> "0", fault |-> "none"]

AppIdle ==
  /\ sshbind = NoBind
  /\ fds = NoFds
  /\ terminal = NoTerminal

KexIdle ==
  /\ session = NewSession
  /\ blocking = TRUE
  /\ pc = "caller"
  /\ connect_rc = "none"
  /\ in_data = <<>>
  /\ banner_buf = <<>>
  /\ banner_ret = 0
  /\ nrecv = 0
  /\ AppIdle

Init ==
  /\ session = NewSession
  /\ blocking \in BOOLEAN
  /\ pc = "caller"
  /\ connect_rc = "none"
  /\ in_data = <<>>
  /\ banner_buf = <<>>
  /\ banner_ret = 0
  /\ nrecv = 0
  /\ AppIdle
  /\ ChanIdle
  /\ CallIdle

(***************************************************************************)
(* ssh_connect, split where it pumps the socket: enter (up to the call of  *)
(* ssh_handle_packets_termination), the events the pump delivers, leave.   *)
(***************************************************************************)
ssh_connect_enter ==
  /\ pc = "caller"
  /\ \/ /\ session.pending_call_state = "NONE"
        /\ session.session_state = "NONE"
        /\ \E ret \in {SSH_OK, SSH_ERROR} :
             IF ret = SSH_ERROR
               THEN /\ session' = [session EXCEPT !.alive = 0,
                                     !.session_state = "CONNECTING"]
                    /\ connect_rc' = SSH_ERROR
                    /\ pc' = "caller"
               ELSE /\ session' = [session EXCEPT !.alive = 1,
                                     !.session_state = "CONNECTING",
                                     !.socket = "connecting",
                                     !.pending_call_state = "CONNECT"]
                    /\ pc' = "connect"
                    /\ UNCHANGED connect_rc
     \/ /\ session.pending_call_state = "CONNECT"
        /\ pc' = "connect"
        /\ UNCHANGED <<session, connect_rc>>
  /\ UNCHANGED <<blocking, in_data, banner_buf, banner_ret, nrecv, appvars>>
  /\ UNCHANGED <<chanvars, callvars>>

\* the socket reports the outcome of the connection attempt
socket_connected ==
  /\ pc = "connect"
  /\ session.socket = "connecting"
  /\ \E code \in {"OK", "ERROR"}, env \in Envs :
       session' = socket_callback_connected(
                    [session EXCEPT !.socket =
                       IF code = "OK" THEN "open" ELSE "closed"], code, env)
  /\ UNCHANGED <<blocking, pc, connect_rc, in_data, banner_buf, banner_ret,
                 nrecv, appvars>>
  /\ UNCHANGED <<chanvars, callvars>>

Junk(n) == [i \in 1..n |-> "c"]
Line(n) == [i \in 1..(n + 1) |-> IF i = n + 1 THEN "\n" ELSE "c"]
Drop(q, n) == SubSeq(q, n + 1, Len(q))

\* the chunks the peer's identification arrives in
BannerChunks == {Junk(64), Line(64), <<"c", "\r", "\n">>}

\* callback_receive_banner meets strdup and the banner analysis only
BannerEnvs == {env \in Envs : env.keys /\ env.buildk /\ env.send}

\* the socket hands its unread bytes to the data callback
socket_data(chunk) ==
  /\ pc = "connect"
  /\ session.socket = "open"
  /\ session.data_callback = "banner"
  /\ Len(in_data) + Len(chunk) <= MaxBannerLen
  /\ \E env \in BannerEnvs :
       LET buf == in_data \o chunk
           r   == callback_receive_banner(session, buf, env)
       IN  /\ session' = r.s
           /\ banner_buf' = buf
           /\ banner_ret' = r.ret
           /\ in_data' = IF r.ret > 0 THEN Drop(buf, r.ret) ELSE buf
  /\ UNCHANGED <<blocking, pc, connect_rc, nrecv, appvars>>
  /\ UNCHANGED <<chanvars, callvars>>

socket_banner == \E chunk \in BannerChunks : socket_data(chunk)

\* the packet layer decodes one packet with the current context and
\* dispatches it by type
Received(type) ==
  [session EXCEPT !.trace = Append(@, Ev("recv", type, session.current_crypto))]

packet_in ==
  /\ pc = "connect"
  /\ session.socket = "open"
  /\ session.data_callback = "packet"
  /\ nrecv < MaxInbound
  /\ nrecv' = nrecv + 1
  /\ UNCHANGED appvars
  /\ UNCHANGED <<blocking, pc, connect_rc, in_data, banner_buf, banner_ret>>
  /\ UNCHANGED <<chanvars, callvars>>

rcv_kexinit ==
  /\ packet_in
  /\ \E env \in Envs : session' = ssh_packet_kexinit(Received("KEXINIT"), env)

DhReplies == [fields : {"none", "pubkey", "pubkey_f", "all"},
              sig : {"good", "bad"}]

rcv_dh_reply ==
  /\ packet_in
  /\ \E pkt \in DhReplies, env \in Envs :
       session' = ssh_packet_dh_reply(Received("KEXDH_REPLY"), pkt, env)

rcv_newkeys ==
  /\ packet_in
  /\ \E env \in Envs : session' = ssh_packet_newkeys(Received("NEWKEYS"), env)

\* the wait of a blocking ssh_connect runs out
ssh_connect_timeout ==
  /\ pc = "connect"
  /\ blocking
  /\ ~ssh_connect_termination(session)
  /\ session' = [session EXCEPT !.session_state = "ERROR",
                                !.pending_call_state = "NONE"]
  /\ connect_rc' = SSH_ERROR
  /\ pc' = "caller"
  /\ UNCHANGED <<blocking, in_data, banner_buf, banner_ret, nrecv, appvars>>
  /\ UNCHANGED <<chanvars, callvars>>

ssh_connect_leave ==
  /\ pc = "connect"
  /\ blocking => ssh_connect_termination(session)
  /\ IF ~blocking /\ ~ssh_connect_termination(session)
       THEN /\ connect_rc' = SSH_AGAIN
            /\ UNCHANGED session
       ELSE /\ session' = [session EXCEPT !.pending_call_state = "NONE"]
            /\ connect_rc' =
                 IF session.session_state \in {"ERROR", "DISCONNECTED"}
                   THEN SSH_ERROR ELSE SSH_OK
  /\ pc' = "caller"
  /\ UNCHANGED <<blocking, in_data, banner_buf, banner_ret, nrecv, appvars>>
  /\ UNCHANGED <<chanvars, callvars>>

disconnect ==
  /\ pc = "caller"
  /\ session.session_state \notin {"NONE", "DISCONNECTED"}
  /\ \E env \in Envs : session' = ssh_disconnect(session, env)
  /\ UNCHANGED <<blocking, pc, connect_rc, in_data, banner_buf, banner_ret,
                 nrecv, appvars>>
  /\ UNCHANGED <<chanvars, callvars>>

Next ==
  \/ ssh_connect_enter
  \/ socket_connected
  \/ socket_banner
  \/ rcv_kexinit
  \/ rcv_dh_reply
  \/ rcv_newkeys
  \/ ssh_connect_timeout
  \/ ssh_connect_leave
  \/ disconnect

Spec == Init /\ [][Next]_vars

(***************************************************************************)
(* The banner receiver on every identification the peer can send: the      *)
(* session waits in SOCKET_CONNECTED inside ssh_connect.                   *)
(***************************************************************************)
WithNewline(len, nl) ==
  [i \in 1..len |-> IF i = nl THEN "\n"
                    ELSE IF i = nl - 1 THEN "\r" ELSE "c"]

BannerData ==
  {Junk(n) : n \in 1..MaxBannerLen} \cup
  UNION {{WithNewline(len, nl) : nl \in 1..len} : len \in 1..MaxBannerLen}

InitBanner ==
  /\ session = [NewSession EXCEPT !.session_state = "SOCKET_CONNECTED",
                                  !.alive = 1, !.socket = "open",
                                  !.pending_call_state = "CONNECT"]
  /\ blocking = TRUE
  /\ pc = "connect"
  /\ connect_rc = "none"
  /\ in_data = <<>>
  /\ banner_buf = <<>>
  /\ banner_ret = 0
  /\ nrecv = 0
  /\ AppIdle
  /\ ChanIdle
  /\ CallIdle

\* the first read brings any identification; later reads bring chunks
socket_identification ==
  /\ in_data = <<>>
  /\ \E chunk \in BannerData : socket_data(chunk)

NextBanner ==
  \/ socket_identification
  \/ socket_banner

SpecBanner == InitBanner /\ [][NextBanner]_vars

(***************************************************************************)
(* channel_write_common on one channel of an authenticated session.  The   *)
(* application sits in channel_open until the peer confirms, then writes.  *)
(* w.pc is the position inside the call: "open" (the wait loop of          *)
(* channel_open), "loop" (head of the while of channel_write_common),      *)
(* "wait" (inside ssh_handle_packets with the window at 0), "flush" (the   *)
(* final do-while), "idle" (control is with the application).              *)
(***************************************************************************)
U32(x) == x % U32Mod

\* the bytes of a payload are told apart by their position
Payload(len) == [i \in 1..len |-> i]

EstablishedSession ==
  [NewSession EXCEPT !.session_state = "AUTHENTICATED",
                     !.dh_handshake_state = "FINISHED",
                     !.alive = 1, !.connected = 1, !.socket = "open",
                     !.data_callback = "packet",
                     !.current_crypto = 1, !.next_crypto = 2,
                     !.serverbanner = "set"]

InitWrite ==
  /\ session = EstablishedSession
  /\ blocking \in BOOLEAN
  /\ pc = "caller"
  /\ connect_rc = SSH_OK
  /\ in_data = <<>>
  /\ banner_buf = <<>>
  /\ banner_ret = 0
  /\ nrecv = 0
  /\ AppIdle
  /\ channel = NoChannel
  /\ w = [NoWrite EXCEPT !.pc = "open"]
  /\ sent_data = <<>>
  /\ out_pkt = NoPacket
  /\ send_seq = 0
  /\ CallIdle

\* what a peer may advertise as its maximum packet size
MaxPackets == {HeaderAllowance - 2, HeaderAllowance, HeaderAllowance + 1,
               HeaderAllowance + 2,
               Min(HeaderAllowance + MaxLen, U32Mod - 1)}

\* the increments a peer may put in WINDOW_ADJUST
Adjusts == {1, MaxWin, U32Mod - 1}

\* the channel numbers a peer may give its end of the channel
RemoteChannels == {1, 2}

\* ssh_packet_channel_open_conf, received in the wait loop of channel_open
ssh_packet_channel_open_conf ==
  /\ w.pc = "open"
  /\ \E id \in RemoteChannels, window \in 0..MaxWin,
        maxpacket \in MaxPackets :
       /\ channel' = [channel EXCEPT !.remote_channel = id,
                                     !.remote_window = window,
                                     !.remote_maxpacket = maxpacket,
                                     !.state = "OPEN"]
       /\ hist' = [hist EXCEPT !.conf = <<id, window, maxpacket>>]
  /\ UNCHANGED <<w, sent_data, out_pkt, send_seq, call>>
  /\ UNCHANGED kexvars

\* ssh_packet_channel_open_fail, received in the wait loop of channel_open;
\* the handler gives up when it cannot copy the peer's error text
ssh_packet_channel_open_fail ==
  /\ w.pc = "open"
  /\ \E alloc \in BOOLEAN :
       /\ channel' = IF alloc THEN [channel EXCEPT !.state = "OPEN_DENIED"]
                              ELSE channel
       /\ hist' = [hist EXCEPT !.denied = TRUE]
  /\ UNCHANGED <<w, sent_data, out_pkt, send_seq, call>>
  /\ UNCHANGED kexvars

\* the value of a result code: SSH_OK is 0, SSH_ERROR is -1
IntOf(rc) == IF rc = SSH_OK THEN 0 ELSE -1

\* what channel_open returns: err is what its last ssh_handle_packets
\* returned, SSH_ERROR when the session is in error
channel_open_result(state, err) ==
  IF state = "OPEN" THEN SSH_OK ELSE err

\* channel_open leaves its wait loop: the state is no longer NOT_OPEN, or
\* the pump failed
channel_open_leave ==
  /\ w.pc = "open"
  /\ \E err \in {SSH_OK, SSH_ERROR} :
       /\ (err = SSH_OK) => (channel.state # "NOT_OPEN")
       /\ w' = [w EXCEPT !.pc = "idle", !.how = "open",
                         !.rc = IntOf(channel_open_result(channel.state,
                                                          err))]
  /\ UNCHANGED <<channel, sent_data, out_pkt, send_seq>>
  /\ UNCHANGED <<kexvars, callvars>>

\* a write that is refused only on a channel that is not OPEN
write_refused_unless_open(ch) == ch.state # "OPEN"

\* channel_write_common: the channel takes no write after the local EOF,
\* when it is not OPEN, or when its close is delayed
write_refused(ch) ==
  ch.local_eof # 0 \/ ch.state # "OPEN" \/ ch.delayed_close # 0

\* channel_write_common up to the while loop
channel_write_enter ==
  /\ w.pc = "idle"
  /\ \E len \in (0..MaxLen) \cup {INT_MAX + 1}, is_stderr \in {0, 1} :
       IF len > INT_MAX \/ write_refused(channel)
         THEN w' = [NoWrite EXCEPT !.origlen = len, !.rc = -1,
                                   !.how = "rejected"]
         ELSE w' = [pc |-> "loop", data |-> Payload(len), len |-> len,
                    origlen |-> len, is_stderr |-> is_stderr,
                    maxpacketlen |-> U32(channel.remote_maxpacket
                                           - HeaderAllowance),
                    polled |-> FALSE, rc |-> 0, how |-> "none"]
  /\ sent_data' = <<>>
  /\ UNCHANGED <<channel, out_pkt, send_seq>>
  /\ UNCHANGED <<kexvars, callvars>>

\* an effectivelen that forgets the remote window
effectivelen_nowindow(len, remote_window, maxpacketlen) ==
  Min(len, maxpacketlen)

\* channel_write_common: effectivelen of the next segment
effectivelen(len, remote_window, maxpacketlen) ==
  Min(IF remote_window < len THEN Min(len, remote_window) ELSE len,
      maxpacketlen)

\* a pointer that is not moved past the bytes sent
advance_stuck(data, eff) == data

\* channel_write_common: data = ((uint8_t*)data + effectivelen)
advance(data, eff) == Drop(data, eff)

\* while (len > 0) is left
write_loop_exit ==
  /\ w.pc = "loop"
  /\ w.len = 0
  /\ w' = [w EXCEPT !.pc = "flush", !.polled = FALSE]
  /\ UNCHANGED <<channel, sent_data, out_pkt, send_seq>>
  /\ UNCHANGED <<kexvars, callvars>>

\* the window is 0: ssh_handle_packets is called
write_wait ==
  /\ w.pc = "loop"
  /\ w.len > 0
  /\ channel.remote_window < w.len
  /\ channel.remote_window = 0
  /\ w' = [w EXCEPT !.pc = "wait", !.polled = FALSE]
  /\ UNCHANGED <<channel, sent_data, out_pkt, send_seq>>
  /\ UNCHANGED <<kexvars, callvars>>

\* the value channel_write_common returns from its loop
write_return(how, rc) ==
  [NoWrite EXCEPT !.origlen = w.origlen, !.len = w.len, !.rc = rc,
                  !.how = how]

\* one segment is built and sent
write_segment ==
  /\ w.pc = "loop"
  /\ w.len > 0
  /\ ~(channel.remote_window < w.len /\ channel.remote_window = 0)
  /\ \E alloc \in BOOLEAN, send \in BOOLEAN :
       LET eff == effectivelen(w.len, channel.remote_window, w.maxpacketlen)
       IN  IF ~alloc \/ ~send
             THEN /\ w' = write_return("error", -1)
                  /\ UNCHANGED <<channel, sent_data, out_pkt, send_seq>>
             ELSE /\ out_pkt' = [type |-> IF w.is_stderr # 0
                                            THEN "EXTENDED_DATA" ELSE "DATA",
                                 len |-> eff]
                  /\ sent_data' = sent_data \o SubSeq(w.data, 1, eff)
                  /\ send_seq' = (send_seq + 1) % SeqMod
                  /\ channel' = [channel EXCEPT
                                   !.remote_window = U32(@ - eff)]
                  /\ w' = [w EXCEPT !.len = U32(@ - eff),
                                    !.data = advance(@, eff)]
  /\ UNCHANGED <<kexvars, callvars>>

\* channel_rcv_change_window, run by the pump of the write
channel_rcv_change_window ==
  /\ w.pc \in {"wait", "flush"}
  /\ \E bytes \in Adjusts :
       channel' = [channel EXCEPT !.remote_window = U32(@ + bytes)]
  /\ w' = [w EXCEPT !.polled = TRUE]
  /\ UNCHANGED <<sent_data, out_pkt, send_seq>>
  /\ UNCHANGED <<kexvars, callvars>>

\* ssh_handle_packets(session, timeout) returns inside the loop; with the
\* infinite timeout of a blocking session it returns once it has processed
\* something or met an error
write_wait_return ==
  /\ w.pc = "wait"
  /\ \E rc \in {SSH_OK, SSH_ERROR} :
       /\ blocking => (w.polled \/ rc = SSH_ERROR)
       /\ IF rc = SSH_ERROR \/ (channel.remote_window = 0 /\ ~blocking)
            THEN w' = write_return(IF rc = SSH_ERROR THEN "error" ELSE "out",
                                   U32(w.origlen - w.len))
            ELSE w' = [w EXCEPT !.pc = "loop"]
  /\ UNCHANGED <<channel, sent_data, out_pkt, send_seq>>
  /\ UNCHANGED <<kexvars, callvars>>

\* the final flush is over: return (int)(origlen - len)
write_flush_return ==
  /\ w.pc = "flush"
  /\ w' = write_return("done", U32(w.origlen - w.len))
  /\ UNCHANGED <<channel, sent_data, out_pkt, send_seq>>
  /\ UNCHANGED <<kexvars, callvars>>

NextWrite ==
  \/ ssh_packet_channel_open_conf
  \/ channel_open_leave
  \/ channel_write_enter
  \/ write_loop_exit
  \/ write_wait
  \/ write_segment
  \/ channel_rcv_change_window
  \/ write_wait_return
  \/ write_flush_return

SpecWrite == InitWrite /\ [][NextWrite]_vars

\* the peer grants window once each time the write waits for it
window_grant ==
  /\ w.pc = "wait"
  /\ ~w.polled
  /\ channel_rcv_change_window

NextWriteFair ==
  \/ ssh_packet_channel_open_conf
  \/ channel_open_leave
  \/ channel_write_enter
  \/ write_loop_exit
  \/ write_wait
  \/ write_segment
  \/ window_grant
  \/ write_wait_return
  \/ write_flush_return

\* the scheduling of a blocking write: the call goes on running, the peer
\* grants window whenever the write waits for it, the pump returns
SpecWriteFair ==
  /\ InitWrite
  /\ [][NextWriteFair]_vars
  /\ WF_vars(write_loop_exit)
  /\ WF_vars(write_wait)
  /\ WF_vars(write_segment)
  /\ WF_vars(window_grant)
  /\ WF_vars(write_wait_return)
  /\ WF_vars(write_flush_return)

(***************************************************************************)
(* The receiving side of a channel and its closing.  Inbound messages are  *)
(* dispatched only while a call pumps the session: call.pc is "read_wait"  *)
(* (the loop of ssh_channel_read), "poll" (ssh_channel_poll), "req_wait"   *)
(* (the reply loop of a request) or "idle" (control is with the            *)
(* application).  A stream buffer is the number of unread bytes it holds.  *)
(***************************************************************************)
PumpPcs == {"read_wait", "poll", "req_wait", "select_pass", "select_poll",
            "select_repoll"}

\* session.out_buffer is the number of fields the output buffer holds.
\* buffer_add_*: n more fields are in the buffer
buffer_add(s, n) == [s EXCEPT !.out_buffer = @ + n]

\* buffer_reinit empties the buffer
buffer_reinit(s) == [s EXCEPT !.out_buffer = 0]

\* packet_send takes the packet out of the output buffer
packet_taken(s) == [s EXCEPT !.out_buffer = 0]

\* the fields of a CHANNEL_OPEN, a CHANNEL_REQUEST and a GLOBAL_REQUEST
\* before the payload
OpenFields == 5
ChannelRequestFields == 4
GlobalRequestFields == 3

\* the counters of messages emitted stop at 2: more than one is what matters
Count(n) == Min(n + 1, 2)

\* the channel of a session under way, before any data
OpenChannel(window, callbacks) ==
  [NoChannel EXCEPT !.state = "OPEN", !.remote_channel = 1,
                    !.remote_window = MaxWin,
                    !.remote_maxpacket = HeaderAllowance + MaxLen,
                    !.local_window = window, !.callbacks = callbacks]

\* the windows an application advertises when it opens the channel
InitWindows == {0, 1, CHANNEL_INITIAL_WINDOW}

InitChannel ==
  /\ session = EstablishedSession
  /\ blocking \in BOOLEAN
  /\ pc = "caller"
  /\ connect_rc = SSH_OK
  /\ in_data = <<>>
  /\ banner_buf = <<>>
  /\ banner_ret = 0
  /\ nrecv = 0
  /\ AppIdle
  /\ \E window \in InitWindows, callbacks \in BOOLEAN :
       /\ channel = OpenChannel(window, callbacks)
       /\ hist = [NoHist EXCEPT !.advertised = window]
  /\ w = NoWrite
  /\ sent_data = <<>>
  /\ out_pkt = NoPacket
  /\ send_seq = 0
  /\ call = NoCall

\* packet_send hands a channel message to the transport
Emit(type, len) ==
  /\ out_pkt' = [type |-> type, len |-> len]
  /\ send_seq' = (send_seq + 1) % SeqMod

NoEmit == UNCHANGED <<out_pkt, send_seq>>

\* grow_window that raises the window although the message did not leave
grow_window_unsent(ch, minimumsize, send) ==
  LET new_window == IF minimumsize > WINDOWBASE THEN minimumsize
                                                 ELSE WINDOWBASE
  IN  IF new_window <= ch.local_window
        THEN [ch |-> ch, rc |-> SSH_OK, adjust |-> 0]
        ELSE [ch |-> [ch EXCEPT !.local_window = new_window],
              rc |-> IF send THEN SSH_OK ELSE SSH_ERROR,
              adjust |-> IF send THEN new_window - ch.local_window ELSE 0]

\* grow_window: the channel afterwards, the result, and the increment of
\* the WINDOW_ADJUST that was sent (0 when none was)
grow_window(ch, minimumsize, send) ==
  LET new_window == IF minimumsize > WINDOWBASE THEN minimumsize
                                                 ELSE WINDOWBASE
  IN  IF new_window <= ch.local_window
        THEN [ch |-> ch, rc |-> SSH_OK, adjust |-> 0]
        ELSE IF ~send
               THEN [ch |-> ch, rc |-> SSH_ERROR, adjust |-> 0]
               ELSE [ch |-> [ch EXCEPT !.local_window = new_window],
                     rc |-> SSH_OK,
                     adjust |-> new_window - ch.local_window]

\* what grow_window sent, and what the peer was told by it
Grown(g) ==
  IF g.adjust > 0 THEN Emit("WINDOW_ADJUST", g.adjust) ELSE NoEmit

StreamBuffer(ch, is_stderr) ==
  IF is_stderr # 0 THEN ch.stderr_buffer ELSE ch.stdout_buffer

SetStreamBuffer(ch, is_stderr, n) ==
  IF is_stderr # 0 THEN [ch EXCEPT !.stderr_buffer = n]
                   ELSE [ch EXCEPT !.stdout_buffer = n]

\* channel_default_bufferize: a buffer that cannot take the data is freed
channel_default_bufferize(ch, len, is_stderr, ok) ==
  LET buf == StreamBuffer(ch, is_stderr)
  IN  IF ok
        THEN [ch |-> SetStreamBuffer(ch, is_stderr,
                       (IF buf = NoBuffer THEN 0 ELSE buf) + len),
              rc |-> 0]
        ELSE [ch |-> SetStreamBuffer(ch, is_stderr, NoBuffer), rc |-> -1]

\* the window accounting that lets the window wrap
window_after_data_wrapping(local_window, len) == U32(local_window - len)

\* channel_rcv_data: the local window after len bytes were buffered
window_after_data(local_window, len) ==
  IF len <= local_window THEN local_window - len ELSE 0

\* channel_rcv_data for a message that names this channel and carries len
\* bytes: bufok is the outcome of the allocation, rest what a registered
\* data callback consumes, send the outcome of grow_window's packet_send
rcv_data(is_stderr, len, bufok, rest, send) ==
  /\ call.pc \in PumpPcs
  /\ hist.received + len <= MaxStream
  /\ LET b == channel_default_bufferize(channel, len, is_stderr, bufok)
     IN  IF b.rc < 0
           THEN /\ rest = 0 /\ send
                /\ channel' = b.ch
                /\ UNCHANGED hist
                /\ NoEmit
           ELSE LET ch1 == [b.ch EXCEPT !.local_window =
                              window_after_data(@, len)]
                    counted == Min(len, channel.local_window)
                IN  IF ~channel.callbacks
                      THEN /\ rest = 0 /\ send
                           /\ channel' = ch1
                           /\ hist' = [hist EXCEPT !.received = @ + len,
                                                   !.counted = @ + counted]
                           /\ NoEmit
                      ELSE LET buf == StreamBuffer(ch1, is_stderr)
                               ch2 == SetStreamBuffer(ch1, is_stderr,
                                                      buf - rest)
                               g   == IF ch2.local_window + (buf - rest)
                                           < WINDOWLIMIT
                                        THEN grow_window(ch2, 0, send)
                                        ELSE [ch |-> ch2, rc |-> SSH_OK,
                                              adjust |-> 0]
                           IN  /\ rest <= buf
                               /\ (ch2.local_window + (buf - rest)
                                     >= WINDOWLIMIT) => send
                               /\ channel' = g.ch
                               /\ hist' = [hist EXCEPT
                                             !.received = @ + len,
                                             !.counted = @ + counted,
                                             !.advertised = @ + g.adjust]
                               /\ Grown(g)
  /\ call' = [call EXCEPT !.polled = TRUE]
  /\ UNCHANGED <<w, sent_data>>
  /\ UNCHANGED kexvars

channel_rcv_data ==
  \E is_stderr \in {0, 1}, len \in 0..MaxData, bufok \in BOOLEAN,
     rest \in 0..MaxStream, send \in BOOLEAN :
    rcv_data(is_stderr, len, bufok, rest, send)

\* channel_rcv_eof
channel_rcv_eof ==
  /\ call.pc \in PumpPcs
  /\ channel' = [channel EXCEPT !.remote_eof = 1]
  /\ call' = [call EXCEPT !.polled = TRUE]
  /\ UNCHANGED <<w, sent_data, out_pkt, send_seq, hist>>
  /\ UNCHANGED kexvars

\* channel_rcv_close that closes at once whatever is buffered
rcv_close_undelayed(ch) ==
  [ch EXCEPT !.state = "CLOSED", !.remote_eof = 1]

\* channel_rcv_close: the channel afterwards
rcv_close(ch) ==
  IF ch.stdout_buffer > 0 \/ ch.stderr_buffer > 0
    THEN [ch EXCEPT !.delayed_close = 1, !.remote_eof = 1]
    ELSE [ch EXCEPT !.state = "CLOSED", !.remote_eof = 1]

channel_rcv_close ==
  /\ call.pc \in PumpPcs
  /\ channel' = rcv_close(channel)
  /\ call' = [call EXCEPT !.polled = TRUE]
  /\ UNCHANGED <<w, sent_data, out_pkt, send_seq, hist>>
  /\ UNCHANGED kexvars

\* the socket fails while the session is pumped: the exception callback
\* marks the session
socket_exception ==
  /\ call.pc \in PumpPcs
  /\ session.session_state # "ERROR"
  /\ session' = [session EXCEPT !.session_state = "ERROR"]
  /\ call' = [call EXCEPT !.polled = TRUE]
  /\ UNCHANGED <<blocking, pc, connect_rc, in_data, banner_buf, banner_ret,
                 nrecv, appvars, hist>>
  /\ UNCHANGED chanvars

\* what ssh_handle_packets returns
ssh_handle_packets(s) ==
  IF s.session_state = "ERROR" THEN SSH_ERROR ELSE SSH_OK

\* ssh_handle_packets(session, -2) may return: at once when the session
\* does not block or is in error, else once it has dispatched something
PumpReturns == ~blocking \/ call.polled \/ session.session_state = "ERROR"


\* a call returns to the application
Return(fn, rc, how) == [NoCall EXCEPT !.fn = fn, !.rc = rc, !.how = how]

\* the counts an application asks ssh_channel_read for
ReadCounts == {0, 1, MaxStream, WINDOWBASE + 1}

\* ssh_channel_read up to its loop: the window is raised when the count
\* asked for exceeds what is buffered plus the window
ssh_channel_read_enter ==
  /\ call.pc = "idle"
  /\ \E count \in ReadCounts, is_stderr \in {0, 1}, send \in BOOLEAN :
       LET buf  == StreamBuffer(channel, is_stderr)
           this == [NoCall EXCEPT !.fn = "read", !.count = count,
                                  !.is_stderr = is_stderr]
       IN  IF count = 0
             THEN /\ send
                  /\ call' = [this EXCEPT !.how = "empty"]
                  /\ UNCHANGED <<channel, hist>>
                  /\ NoEmit
           ELSE IF buf = NoBuffer
             THEN /\ send
                  /\ call' = [this EXCEPT !.pc = "crashed"]
                  /\ UNCHANGED <<channel, hist>>
                  /\ NoEmit
           ELSE IF count > buf + channel.local_window
             THEN LET g == grow_window(channel, count - buf, send)
                  IN  /\ channel' = g.ch
                      /\ hist' = [hist EXCEPT !.advertised = @ + g.adjust]
                      /\ Grown(g)
                      /\ call' = IF g.rc = SSH_ERROR
                                   THEN [this EXCEPT !.rc = -1,
                                                     !.how = "error"]
                                   ELSE [this EXCEPT !.pc = "read_loop"]
             ELSE /\ send
                  /\ call' = [this EXCEPT !.pc = "read_loop"]
                  /\ UNCHANGED <<channel, hist>>
                  /\ NoEmit
  /\ UNCHANGED <<w, sent_data>>
  /\ UNCHANGED kexvars

\* the head of the while of ssh_channel_read with nothing buffered: end of
\* file, or one more round of the pump
ssh_channel_read_wait ==
  /\ call.pc = "read_loop"
  /\ StreamBuffer(channel, call.is_stderr) = 0
  /\ call' = IF channel.remote_eof # 0
               THEN Return("read", 0, "eof")
               ELSE [call EXCEPT !.pc = "read_wait", !.polled = FALSE]
  /\ hist' = IF channel.remote_eof # 0
               THEN [hist EXCEPT !.eof_read = @ \cup {call.is_stderr}]
               ELSE hist
  /\ UNCHANGED <<channel, w, sent_data, out_pkt, send_seq>>
  /\ UNCHANGED kexvars

\* ssh_handle_packets returns inside the loop of ssh_channel_read
ssh_channel_read_pumped ==
  /\ call.pc = "read_wait"
  /\ PumpReturns
  /\ call' = IF ssh_handle_packets(session) # SSH_OK
               THEN Return("read", -1, "error")
               ELSE [call EXCEPT !.pc = "read_loop"]
  /\ UNCHANGED <<channel, w, sent_data, out_pkt, send_seq, hist>>
  /\ UNCHANGED kexvars

\* after the loop of ssh_channel_read: the bytes are handed over and the
\* window is raised when it fell under the limit
ssh_channel_read_copy ==
  /\ call.pc = "read_loop"
  /\ StreamBuffer(channel, call.is_stderr) # 0
  /\ \E send \in BOOLEAN :
       LET buf == StreamBuffer(channel, call.is_stderr)
           len == IF buf > call.count THEN call.count ELSE buf
           ch1 == SetStreamBuffer(channel, call.is_stderr, buf - len)
       IN  IF buf = NoBuffer
             THEN /\ send
                  /\ call' = [call EXCEPT !.pc = "crashed"]
                  /\ UNCHANGED <<channel, hist>>
                  /\ NoEmit
           ELSE IF ch1.local_window < WINDOWLIMIT
             THEN LET g == grow_window(ch1, 0, send)
                  IN  /\ channel' = g.ch
                      /\ hist' = [hist EXCEPT !.advertised = @ + g.adjust]
                      /\ Grown(g)
                      /\ call' = IF g.rc = SSH_ERROR
                                   THEN Return("read", -1, "error")
                                   ELSE Return("read", len, "read")
             ELSE /\ send
                  /\ channel' = ch1
                  /\ call' = Return("read", len, "read")
                  /\ UNCHANGED hist
                  /\ NoEmit
  /\ UNCHANGED <<w, sent_data>>
  /\ UNCHANGED kexvars

\* SSH_EOF, the value ssh_channel_poll returns at end of file
SSH_EOF == -127

\* what ssh_channel_poll returns once it has looked at the socket
poll_result(ch, is_stderr) ==
  IF StreamBuffer(ch, is_stderr) > 0 THEN StreamBuffer(ch, is_stderr)
  ELSE IF ch.remote_eof # 0 THEN SSH_EOF
  ELSE 0

\* ssh_channel_poll: the session is pumped when nothing is buffered
ssh_channel_poll_enter ==
  /\ call.pc = "idle"
  /\ \E is_stderr \in {0, 1} :
       LET this == [NoCall EXCEPT !.fn = "poll", !.is_stderr = is_stderr]
       IN  call' =
             IF StreamBuffer(channel, is_stderr) = NoBuffer
               THEN [this EXCEPT !.pc = "crashed"]
             ELSE IF StreamBuffer(channel, is_stderr) = 0
                     /\ channel.remote_eof = 0
               THEN [this EXCEPT !.pc = "poll"]
             ELSE [this EXCEPT !.rc = poll_result(channel, is_stderr),
                               !.how = "polled"]
  /\ UNCHANGED <<channel, w, sent_data, out_pkt, send_seq, hist>>
  /\ UNCHANGED kexvars

\* ssh_handle_packets(session, 0) returns inside ssh_channel_poll
ssh_channel_poll_pumped ==
  /\ call.pc = "poll"
  /\ call' =
       IF ssh_handle_packets(session) = SSH_ERROR
         THEN Return("poll", -1, "error")
       ELSE IF StreamBuffer(channel, call.is_stderr) = NoBuffer
         THEN [call EXCEPT !.pc = "crashed"]
       ELSE Return("poll", poll_result(channel, call.is_stderr), "polled")
  /\ UNCHANGED <<channel, w, sent_data, out_pkt, send_seq, hist>>
  /\ UNCHANGED kexvars

\* ssh_channel_send_eof: the channel afterwards, the result, and whether an
\* EOF message left (alloc: the message was built, send: packet_send)
send_eof(ch, alloc, send) ==
  IF ~alloc
    THEN [ch |-> ch, rc |-> SSH_ERROR, sent |-> FALSE]
    ELSE [ch |-> [ch EXCEPT !.local_eof = 1],
          rc |-> IF send THEN SSH_OK ELSE SSH_ERROR,
          sent |-> send]

ssh_channel_send_eof ==
  /\ call.pc = "idle"
  /\ \E alloc \in BOOLEAN, send \in BOOLEAN :
       LET e == send_eof(channel, alloc, send)
       IN  /\ alloc \/ send
           /\ channel' = e.ch
           /\ call' = [NoCall EXCEPT !.fn = "send_eof", !.rc = IntOf(e.rc)]
           /\ IF e.sent
                THEN /\ Emit("EOF", 0)
                     /\ hist' = [hist EXCEPT !.eof_msgs = Count(@),
                                             !.eof_ok = TRUE]
                ELSE /\ NoEmit
                     /\ UNCHANGED hist
  /\ UNCHANGED <<w, sent_data>>
  /\ UNCHANGED kexvars

\* ssh_channel_close: EOF first when local_eof is not set, then CLOSE
ssh_channel_close ==
  /\ call.pc = "idle"
  /\ \E alloc \in BOOLEAN, send \in BOOLEAN, send_close \in BOOLEAN :
       LET e == IF channel.local_eof = 0
                  THEN send_eof(channel, alloc, send)
                  ELSE [ch |-> channel, rc |-> SSH_OK, sent |-> FALSE]
           h == IF e.sent THEN [hist EXCEPT !.eof_msgs = Count(@),
                                            !.eof_ok = TRUE]
                          ELSE hist
       IN  /\ (channel.local_eof # 0) => (alloc /\ send)
           /\ (e.rc # SSH_OK) => send_close
           /\ alloc \/ send
           /\ IF e.rc # SSH_OK
                THEN /\ channel' = e.ch
                     /\ hist' = h
                     /\ call' = [NoCall EXCEPT !.fn = "close",
                                               !.rc = IntOf(e.rc)]
                     /\ IF e.sent THEN Emit("EOF", 0) ELSE NoEmit
              ELSE IF ~send_close
                THEN /\ channel' = e.ch
                     /\ hist' = h
                     /\ call' = [NoCall EXCEPT !.fn = "close", !.rc = -1]
                     /\ IF e.sent THEN Emit("EOF", 0) ELSE NoEmit
              ELSE /\ channel' = [e.ch EXCEPT !.state = "CLOSED"]
                   /\ hist' = [h EXCEPT !.close_msgs = Count(@),
                                        !.close_early = @ \/ ~h.eof_ok]
                   /\ call' = [NoCall EXCEPT !.fn = "close", !.rc = 0]
                   /\ out_pkt' = [type |-> "CLOSE", len |-> 0]
                   /\ send_seq' = (send_seq + IF e.sent THEN 2 ELSE 1)
                                     % SeqMod
  /\ UNCHANGED <<w, sent_data>>
  /\ UNCHANGED kexvars

NextChannel ==
  \/ channel_rcv_data
  \/ channel_rcv_eof
  \/ channel_rcv_close
  \/ ssh_channel_read_enter
  \/ ssh_channel_read_wait
  \/ ssh_channel_read_pumped
  \/ ssh_channel_read_copy
  \/ ssh_channel_poll_enter
  \/ ssh_channel_poll_pumped

SpecChannel == InitChannel /\ [][NextChannel]_vars

\* the closing of a channel: the application sends EOF and CLOSE, the peer
\* its own while the application polls
NextClose ==
  \/ ssh_channel_send_eof
  \/ ssh_channel_close
  \/ ssh_channel_poll_enter
  \/ ssh_channel_poll_pumped
  \/ channel_rcv_eof
  \/ channel_rcv_close

SpecClose == InitChannel /\ [][NextClose]_vars

(***************************************************************************)
(* Requests.  A request with reply = 1 waits in a loop of                  *)
(* ssh_handle_packets for the peer's answer: call.pc = "req_wait", call.fn *)
(* tells whether it is channel_request or global_request.                  *)
(***************************************************************************)
InitRequest ==
  /\ session = EstablishedSession
  /\ blocking \in BOOLEAN
  /\ pc = "caller"
  /\ connect_rc = SSH_OK
  /\ in_data = <<>>
  /\ banner_buf = <<>>
  /\ banner_ret = 0
  /\ nrecv = 0
  /\ AppIdle
  /\ channel = OpenChannel(CHANNEL_INITIAL_WINDOW, FALSE)
  /\ hist = [NoHist EXCEPT !.advertised = CHANNEL_INITIAL_WINDOW]
  /\ w = NoWrite
  /\ sent_data = <<>>
  /\ out_pkt = NoPacket
  /\ send_seq = 0
  /\ call = NoCall

\* a request that is let in whatever the request state
request_refused_never(request_state) == FALSE

\* channel_request / global_request: the test of the request state on entry
request_refused(request_state) == request_state # "NONE"

\* a wait loop that no session error ends
wait_never_broken(s, rc) == FALSE

\* channel_request: the test that ends the wait after ssh_handle_packets
channel_wait_broken(s, rc) == s.session_state = "ERROR"

\* global_request: the test that ends the wait after ssh_handle_packets
global_wait_broken(s, rc) == rc = SSH_ERROR

\* what the switch after the wait loop returns for a request state
request_result(request_state) ==
  IF request_state = "ACCEPTED" THEN 0 ELSE -1

\* channel_request up to its wait loop
channel_request_enter ==
  /\ call.pc = "idle"
  /\ \E reply \in {0, 1}, alloc \in BOOLEAN, send \in BOOLEAN :
       LET this == [NoCall EXCEPT !.fn = "channel_request",
                                  !.reply = reply]
       IN  /\ alloc \/ send
           /\ hist' = [hist EXCEPT !.nested = "none", !.reply = "none"]
           /\ IF request_refused(channel.request_state)
                THEN /\ alloc /\ send
                     /\ call' = [this EXCEPT !.rc = -1, !.how = "refused"]
                     /\ UNCHANGED <<channel, session>>
                     /\ NoEmit
              ELSE IF ~alloc
                THEN /\ call' = [this EXCEPT !.rc = -1, !.how = "oom"]
                     /\ \E added \in 0..ChannelRequestFields :
                          session' = buffer_reinit(buffer_add(session, added))
                     /\ UNCHANGED channel
                     /\ NoEmit
              ELSE IF ~send
                THEN /\ call' = [this EXCEPT !.rc = -1, !.how = "unsent"]
                     /\ channel' = [channel EXCEPT
                                      !.request_state = "PENDING"]
                     /\ session' = packet_taken(session)
                     /\ NoEmit
              ELSE IF reply = 0
                THEN /\ call' = [this EXCEPT !.rc = 0, !.how = "noreply"]
                     /\ channel' = [channel EXCEPT !.request_state = "NONE"]
                     /\ session' = packet_taken(session)
                     /\ Emit("CHANNEL_REQUEST", 0)
              ELSE /\ call' = [this EXCEPT !.pc = "req_wait"]
                   /\ channel' = [channel EXCEPT !.request_state = "PENDING"]
                   /\ session' = packet_taken(session)
                   /\ Emit("CHANNEL_REQUEST", 1)
  /\ UNCHANGED <<w, sent_data>>
  /\ UNCHANGED <<blocking, pc, connect_rc, in_data, banner_buf, banner_ret,
                 nrecv, appvars>>

\* ssh_packet_channel_success / ssh_packet_channel_failure
channel_reply(ch, answer) ==
  IF ch.request_state # "PENDING" THEN ch
  ELSE [ch EXCEPT !.request_state = answer]

ssh_packet_channel_success ==
  /\ call.pc \in PumpPcs
  /\ channel' = channel_reply(channel, "ACCEPTED")
  /\ hist' = [hist EXCEPT !.reply = IF @ = "none" THEN "SUCCESS" ELSE @]
  /\ call' = [call EXCEPT !.polled = TRUE]
  /\ UNCHANGED <<w, sent_data, out_pkt, send_seq>>
  /\ UNCHANGED kexvars

ssh_packet_channel_failure ==
  /\ call.pc \in PumpPcs
  /\ channel' = channel_reply(channel, "DENIED")
  /\ hist' = [hist EXCEPT !.reply = IF @ = "none" THEN "FAILURE" ELSE @]
  /\ call' = [call EXCEPT !.polled = TRUE]
  /\ UNCHANGED <<w, sent_data, out_pkt, send_seq>>
  /\ UNCHANGED kexvars

\* a callback run by the pump of a channel request issues a request of its
\* own on the same channel (one that asks for no reply)
channel_request_nested ==
  /\ call.pc = "req_wait"
  /\ call.fn = "channel_request"
  /\ hist.nested = "none"
  /\ IF request_refused(channel.request_state)
       THEN /\ hist' = [hist EXCEPT !.nested = "refused"]
            /\ UNCHANGED channel
            /\ NoEmit
       ELSE /\ hist' = [hist EXCEPT !.nested = "sent"]
            /\ channel' = [channel EXCEPT !.request_state = "NONE"]
            /\ Emit("CHANNEL_REQUEST", 0)
  /\ UNCHANGED <<call, w, sent_data>>
  /\ UNCHANGED kexvars

\* one round of the wait loop of channel_request: ssh_handle_packets has
\* returned; the loop goes on, or the call returns by the switch
channel_request_pumped ==
  /\ call.pc = "req_wait"
  /\ call.fn = "channel_request"
  /\ PumpReturns
  /\ LET state == IF channel_wait_broken(session,
                                         ssh_handle_packets(session))
                    THEN "ERROR" ELSE channel.request_state
     IN  IF state = "PENDING"
           THEN /\ call' = [call EXCEPT !.polled = FALSE]
                /\ UNCHANGED channel
           ELSE /\ call' = Return("channel_request", request_result(state),
                                  state)
                /\ channel' = [channel EXCEPT !.request_state = "NONE"]
  /\ UNCHANGED <<w, sent_data, out_pkt, send_seq, hist>>
  /\ UNCHANGED kexvars

\* global_request up to its wait loop
global_request_enter ==
  /\ call.pc = "idle"
  /\ \E reply \in {0, 1}, alloc \in BOOLEAN, send \in BOOLEAN :
       LET this == [NoCall EXCEPT !.fn = "global_request",
                                  !.reply = reply]
       IN  /\ alloc \/ send
           /\ hist' = [hist EXCEPT !.nested = "none", !.reply = "none"]
           /\ IF request_refused(session.global_req_state)
                THEN /\ alloc /\ send
                     /\ call' = [this EXCEPT !.rc = -1, !.how = "refused"]
                     /\ UNCHANGED session
                     /\ NoEmit
              ELSE IF ~alloc
                THEN /\ call' = [this EXCEPT !.rc = -1, !.how = "oom"]
                     /\ \E added \in 0..GlobalRequestFields :
                          /\ session.out_buffer + added <= MaxOutBuffer
                          /\ session' = buffer_add(session, added)
                     /\ NoEmit
              ELSE IF ~send
                THEN /\ call' = [this EXCEPT !.rc = -1, !.how = "unsent"]
                     /\ session' = [packet_taken(session) EXCEPT
                                      !.global_req_state = "PENDING"]
                     /\ NoEmit
              ELSE IF reply = 0
                THEN /\ call' = [this EXCEPT !.rc = 0, !.how = "noreply"]
                     /\ session' = [packet_taken(session) EXCEPT
                                      !.global_req_state = "NONE"]
                     /\ Emit("GLOBAL_REQUEST", 0)
              ELSE /\ call' = [this EXCEPT !.pc = "req_wait"]
                   /\ session' = [packet_taken(session) EXCEPT
                                    !.global_req_state = "PENDING"]
                   /\ Emit("GLOBAL_REQUEST", 1)
  /\ UNCHANGED <<blocking, pc, connect_rc, in_data, banner_buf, banner_ret,
                 nrecv, appvars>>
  /\ UNCHANGED <<channel, w, sent_data>>

\* ssh_request_success / ssh_request_denied
global_reply(s, answer) ==
  IF s.global_req_state # "PENDING" THEN s
  ELSE [s EXCEPT !.global_req_state = answer]

ssh_request_success ==
  /\ call.pc \in PumpPcs
  /\ session' = global_reply(session, "ACCEPTED")
  /\ call' = [call EXCEPT !.polled = TRUE]
  /\ UNCHANGED <<blocking, pc, connect_rc, in_data, banner_buf, banner_ret,
                 nrecv, appvars, hist>>
  /\ UNCHANGED chanvars

ssh_request_denied ==
  /\ call.pc \in PumpPcs
  /\ session' = global_reply(session, "DENIED")
  /\ call' = [call EXCEPT !.polled = TRUE]
  /\ UNCHANGED <<blocking, pc, connect_rc, in_data, banner_buf, banner_ret,
                 nrecv, appvars, hist>>
  /\ UNCHANGED chanvars

\* one round of the wait loop of global_request: ssh_handle_packets has
\* returned; the loop goes on, or the call returns by the switch
global_request_pumped ==
  /\ call.pc = "req_wait"
  /\ call.fn = "global_request"
  /\ PumpReturns
  /\ LET state == IF global_wait_broken(session,
                                        ssh_handle_packets(session))
                    THEN "ERROR" ELSE session.global_req_state
     IN  IF state = "PENDING"
           THEN /\ call' = [call EXCEPT !.polled = FALSE]
                /\ UNCHANGED session
           ELSE /\ call' = Return("global_request", request_result(state),
                                  state)
                /\ session' = [session EXCEPT !.global_req_state = state]
  /\ UNCHANGED <<blocking, pc, connect_rc, in_data, banner_buf, banner_ret,
                 nrecv, appvars>>
  /\ UNCHANGED <<chanvars, hist>>

NextRequest ==
  \/ channel_request_enter
  \/ ssh_packet_channel_success
  \/ ssh_packet_channel_failure
  \/ channel_request_nested
  \/ channel_request_pumped
  \/ global_request_enter
  \/ ssh_request_success
  \/ ssh_request_denied
  \/ global_request_pumped
  \/ socket_exception

SpecRequest == InitRequest /\ [][NextRequest]_vars

\* the scheduling of a waiting request: ssh_handle_packets returns and the
\* loop takes its next round
SpecRequestFair ==
  /\ InitRequest
  /\ [][NextRequest]_vars
  /\ WF_vars(channel_request_pumped)
  /\ WF_vars(global_request_pumped)

\* channel_open up to its wait loop: the window is advertised in the
\* CHANNEL_OPEN message
channel_open_enter ==
  /\ w = NoWrite
  /\ call.pc = "idle"
  /\ channel.state = "NOT_OPEN"
  /\ hist = NoHist
  /\ \E window \in InitWindows, alloc \in BOOLEAN, send \in BOOLEAN :
       /\ alloc \/ send
       /\ channel' = [channel EXCEPT !.local_window = window]
       /\ IF ~alloc
            THEN /\ w' = [w EXCEPT !.how = "open", !.rc = -1]
                 /\ \E added \in 0..OpenFields :
                      /\ session.out_buffer + added <= MaxOutBuffer
                      /\ session' = buffer_add(session, added)
                 /\ hist' = hist
                 /\ NoEmit
          ELSE IF send
            THEN /\ w' = [w EXCEPT !.pc = "open"]
                 /\ session' = packet_taken(session)
                 /\ hist' = [hist EXCEPT !.advertised = window]
                 /\ Emit("CHANNEL_OPEN", window)
            ELSE /\ w' = [w EXCEPT !.how = "open", !.rc = -1]
                 /\ session' = packet_taken(session)
                 /\ hist' = hist
                 /\ NoEmit
  /\ UNCHANGED <<sent_data, call>>
  /\ UNCHANGED <<blocking, pc, connect_rc, in_data, banner_buf, banner_ret,
                 nrecv, appvars>>

InitOpen ==
  /\ session = EstablishedSession
  /\ blocking \in BOOLEAN
  /\ pc = "caller"
  /\ connect_rc = SSH_OK
  /\ in_data = <<>>
  /\ banner_buf = <<>>
  /\ banner_ret = 0
  /\ nrecv = 0
  /\ AppIdle
  /\ ChanIdle
  /\ CallIdle

NextOpen ==
  \/ channel_open_enter
  \/ ssh_packet_channel_open_conf
  \/ ssh_packet_channel_open_fail
  \/ channel_open_leave

SpecOpen == InitOpen /\ [][NextOpen]_vars

(***************************************************************************)
(* ssh_channel_select and ssh_select on one channel.  call.lists tells     *)
(* which of the read ("r"), write ("w") and except ("e") arrays hold the   *)
(* channel (the arrays may hold channels of other sessions as well, whose  *)
(* descriptors select(2) counts), call.out the arrays it is returned in,   *)
(* call.finite whether the timeout is finite, call.avail whether the       *)
(* socket has data to read.  call.pc is "select_pass" in                   *)
(* channel_protocol_select, "select_poll" and "select_repoll" in the polls *)
(* of ssh_select, "select_wait" inside select(2).  hist.waited tells that  *)
(* the call went into select(2), hist.select what select(2) returned last. *)
(***************************************************************************)
\* libssh.h and errno.h
SSH_EINTR == 3
EINTR == 4

\* what select(2) returns: -1 with errno set, 0 when the timeout ran out,
\* or the number of descriptors ready
SelectResults ==
  {[rc |-> -1, errno |-> e] : e \in {"EINTR", "EBADF"}}
    \cup {[rc |-> n, errno |-> "none"] : n \in 0..MaxReady}

\* a channel open with the window of ssh_channel_open_session, no call yet
InitSelect ==
  /\ session = EstablishedSession
  /\ blocking \in BOOLEAN
  /\ pc = "caller"
  /\ connect_rc = SSH_OK
  /\ in_data = <<>>
  /\ banner_buf = <<>>
  /\ banner_ret = 0
  /\ nrecv = 0
  /\ AppIdle
  /\ channel = OpenChannel(CHANNEL_INITIAL_WINDOW, FALSE)
  /\ hist = [NoHist EXCEPT !.advertised = CHANNEL_INITIAL_WINDOW]
  /\ w = NoWrite
  /\ sent_data = <<>>
  /\ out_pkt = NoPacket
  /\ send_seq = 0
  /\ call = NoCall

\* the call returns rc and the arrays out
Selected(fn, rc, how, out) ==
  [NoCall EXCEPT !.fn = fn, !.rc = rc, !.how = how, !.out = out]

ssh_channel_is_open(ch, s) == ch.state = "OPEN" /\ s.alive # 0

ssh_channel_is_closed(ch, s) == ch.state # "OPEN" \/ s.alive = 0

\* channel_protocol_select: the arrays the channel is elected in
channel_protocol_select(ch, s, lists, writable) ==
  {l \in lists :
     \/ /\ l = "r"
        /\ \/ StreamBuffer(ch, 0) > 0
           \/ StreamBuffer(ch, 1) > 0
           \/ ch.remote_eof # 0
     \/ /\ l = "w"
        /\ writable /\ ssh_channel_is_open(ch, s) /\ ch.remote_window > 0
     \/ /\ l = "e"
        /\ (s.socket # "open" \/ ssh_channel_is_closed(ch, s))}

\* ssh_channel_select up to its loop
ssh_channel_select_enter ==
  /\ call.pc = "idle"
  /\ \E lists \in SUBSET {"r", "w", "e"}, finite \in BOOLEAN,
        alloc \in BOOLEAN, avail \in BOOLEAN :
       LET this == [NoCall EXCEPT !.fn = "channel_select", !.lists = lists,
                                  !.finite = finite]
       IN  call' = IF lists = {}
                     THEN Selected("channel_select", 0, "empty", {})
                   ELSE IF ~alloc
                     THEN Selected("channel_select", -1, "oom", {})
                   ELSE [this EXCEPT !.pc = "select_pass", !.avail = avail]
  /\ hist' = [hist EXCEPT !.waited = FALSE, !.select = NoHist.select]
  /\ UNCHANGED chanvars
  /\ UNCHANGED kexvars

\* the loop of channel_protocol_select pumps the session while the channel
\* is open and its socket has data
select_pumps ==
  /\ call.pc = "select_pass"
  /\ call.avail
  /\ "r" \in call.lists
  /\ ssh_channel_is_open(channel, session)

select_rcv_data == select_pumps /\ channel_rcv_data
select_rcv_eof == select_pumps /\ channel_rcv_eof
select_rcv_close == select_pumps /\ channel_rcv_close

\* ssh_channel_select: channel_protocol_select, then the return or the
\* call of select(2)
ssh_channel_select_pass ==
  /\ call.fn = "channel_select"
  /\ call.pc = "select_pass"
  /\ \E writable \in BOOLEAN :
       LET out == channel_protocol_select(channel, session, call.lists,
                                          writable)
       IN  IF out # {}
             THEN /\ call' = Selected("channel_select", 0, "selected", out)
                  /\ UNCHANGED hist
             ELSE /\ call' = [call EXCEPT !.pc = "select_wait",
                                          !.avail = FALSE]
                  /\ hist' = [hist EXCEPT !.waited = TRUE]
  /\ UNCHANGED chanvars
  /\ UNCHANGED kexvars

\* ssh_channel_select: select(2) returns
ssh_channel_select_returns ==
  /\ call.fn = "channel_select"
  /\ call.pc = "select_wait"
  /\ \E r \in SelectResults, avail \in BOOLEAN :
       /\ (r.rc = 0) => call.finite
       /\ avail => (r.rc > 0 /\ "r" \in call.lists)
       /\ hist' = [hist EXCEPT !.select = r]
       /\ call' = IF r.rc = EINTR
                    THEN Selected("channel_select", SSH_EINTR, "eintr", {})
                    ELSE [call EXCEPT !.pc = "select_pass", !.avail = avail]
  /\ UNCHANGED chanvars
  /\ UNCHANGED kexvars

\* ssh_select up to its polls: the caller's descriptors are looked at first
ssh_select_enter ==
  /\ call.pc = "idle"
  /\ \E maxfd \in {0, 1}, rep \in {-1, 0, 1}, finite \in BOOLEAN :
       LET this == [NoCall EXCEPT !.fn = "select", !.lists = {"r"},
                                  !.finite = finite]
       IN  /\ (maxfd = 0) => (rep = 0)
           /\ call' = IF rep = -1
                        THEN Selected("select", -1, "error", {})
                        ELSE [this EXCEPT !.pc = "select_poll",
                                          !.set = (rep > 0)]
  /\ hist' = [hist EXCEPT !.waited = FALSE, !.select = NoHist.select]
  /\ UNCHANGED chanvars
  /\ UNCHANGED kexvars

\* ssh_channel_poll inside ssh_select pumps the session when the stream it
\* looks at is empty and no EOF was seen
select_polls ==
  /\ call.fn = "select"
  /\ call.pc \in {"select_poll", "select_repoll"}
  /\ (call.pc = "select_repoll") => call.avail
  /\ session.alive # 0
  /\ channel.remote_eof = 0
  /\ StreamBuffer(channel, 0) = 0

select_poll_rcv_data == select_polls /\ channel_rcv_data
select_poll_rcv_eof == select_polls /\ channel_rcv_eof
select_poll_rcv_close == select_polls /\ channel_rcv_close

\* ssh_select: ssh_channel_poll(channel, 0) > 0, or else
\* ssh_channel_poll(channel, 1) > 0
select_polled(ch, s) ==
  /\ s.alive # 0
  /\ \/ poll_result(ch, 0) > 0
     \/ poll_result(ch, 1) > 0

\* ssh_channel_poll reads through a buffer that was freed
select_poll_crashes(ch, s) ==
  /\ s.alive # 0
  /\ \/ StreamBuffer(ch, 0) = NoBuffer
     \/ StreamBuffer(ch, 1) = NoBuffer

\* ssh_select: the channel was polled, then the return or the call of
\* select(2)
ssh_select_pass ==
  /\ call.fn = "select"
  /\ call.pc = "select_poll"
  /\ IF select_poll_crashes(channel, session)
       THEN /\ call' = [call EXCEPT !.pc = "crashed"]
            /\ UNCHANGED hist
     ELSE IF select_polled(channel, session) \/ call.set
       THEN /\ call' = Selected("select", 0, "selected",
                              IF select_polled(channel, session)
                                THEN {"r"} ELSE {})
            /\ UNCHANGED hist
     ELSE /\ call' = [call EXCEPT !.pc = "select_wait"]
          /\ hist' = [hist EXCEPT !.waited = TRUE]
  /\ UNCHANGED chanvars
  /\ UNCHANGED kexvars

\* ssh_select: select(2) returns
ssh_select_returns ==
  /\ call.fn = "select"
  /\ call.pc = "select_wait"
  /\ \E r \in SelectResults, avail \in BOOLEAN :
       /\ (r.rc = 0) => call.finite
       /\ avail => (r.rc > 0 /\ session.alive # 0)
       /\ hist' = [hist EXCEPT !.select = r]
       /\ call' = IF r.rc = -1 /\ r.errno = "EINTR"
                    THEN Selected("select", SSH_EINTR, "eintr", {})
                  ELSE IF r.rc = -1
                    THEN Selected("select", -1, "error", {})
                  ELSE [call EXCEPT !.pc = "select_repoll",
                                    !.avail = avail]
  /\ UNCHANGED chanvars
  /\ UNCHANGED kexvars

\* ssh_select: the channels whose descriptor is ready are polled again
ssh_select_leave ==
  /\ call.fn = "select"
  /\ call.pc = "select_repoll"
  /\ call' = IF call.avail /\ select_poll_crashes(channel, session)
               THEN [call EXCEPT !.pc = "crashed"]
               ELSE Selected("select", 0, "waited",
                             IF call.avail /\ select_polled(channel, session)
                               THEN {"r"} ELSE {})
  /\ UNCHANGED hist
  /\ UNCHANGED chanvars
  /\ UNCHANGED kexvars

NextSelect ==
  \/ ssh_channel_select_enter
  \/ select_rcv_data
  \/ select_rcv_eof
  \/ select_rcv_close
  \/ ssh_channel_select_pass
  \/ ssh_channel_select_returns
  \/ ssh_select_enter
  \/ select_poll_rcv_data
  \/ select_poll_rcv_eof
  \/ select_poll_rcv_close
  \/ ssh_select_pass
  \/ ssh_select_returns
  \/ ssh_select_leave

SpecSelect == InitSelect /\ [][NextSelect]_vars

(***************************************************************************)
(* Writes on a channel in each of the states its other calls and the       *)
(* peer's messages leave it in: untouched since its opening, after         *)
(* ssh_channel_send_eof, after a CLOSE of the peer with nothing buffered,  *)
(* and after a CLOSE with one byte unread.                                 *)
(***************************************************************************)
WrittenChannels ==
  LET open == OpenChannel(CHANNEL_INITIAL_WINDOW, FALSE)
  IN  {open,
       send_eof(open, TRUE, TRUE).ch,
       rcv_close(open),
       rcv_close([open EXCEPT !.stdout_buffer = 1]),
       rcv_close(send_eof(open, TRUE, TRUE).ch)}

InitWriteClose ==
  /\ session = EstablishedSession
  /\ blocking \in BOOLEAN
  /\ pc = "caller"
  /\ connect_rc = SSH_OK
  /\ in_data = <<>>
  /\ banner_buf = <<>>
  /\ banner_ret = 0
  /\ nrecv = 0
  /\ AppIdle
  /\ channel \in WrittenChannels
  /\ w = NoWrite
  /\ sent_data = <<>>
  /\ out_pkt = NoPacket
  /\ send_seq = 0
  /\ CallIdle

NextWriteClose ==
  \/ channel_write_enter
  \/ write_loop_exit
  \/ write_wait
  \/ write_segment
  \/ channel_rcv_change_window
  \/ write_wait_return
  \/ write_flush_return

SpecWriteClose == InitWriteClose /\ [][NextWriteClose]_vars

(***************************************************************************)
(* The channel table of a session.  session.channels is the list           *)
(* ssh_channel_new prepends to, session.maxchannel the counter             *)
(* ssh_channel_new_id increments; an inbound channel message is resolved   *)
(* to an entry of the list by the channel number it carries.  hist.ids is  *)
(* the set of numbers channel_open has handed out, hist.resolved the       *)
(* position in the list the last message was resolved to (0 for none),     *)
(* hist.msgs the number of messages dispatched.                            *)
(***************************************************************************)
\* ssh_set_error records the code on the session; where the handshake wants
\* the session in error it assigns session_state itself
ssh_set_error(s, code) == [s EXCEPT !.error = code]

\* ssh_channel_new: memset(channel, 0, ...)
NewEntry == [local_channel |-> 0, remote_window |-> 0, state |-> "NOT_OPEN"]

\* the channel numbers an inbound message may carry
MsgChannels == 0..MaxOpens

InitTable ==
  /\ session = EstablishedSession
  /\ blocking \in BOOLEAN
  /\ pc = "caller"
  /\ connect_rc = SSH_OK
  /\ in_data = <<>>
  /\ banner_buf = <<>>
  /\ banner_ret = 0
  /\ nrecv = 0
  /\ AppIdle
  /\ ChanIdle
  /\ CallIdle

\* ssh_channel_new
ssh_channel_new ==
  /\ Len(session.channels) < MaxChannels
  /\ \E alloc \in BOOLEAN :
       session' = IF alloc
                    THEN [session EXCEPT !.channels = <<NewEntry>> \o @]
                    ELSE ssh_set_error(session, "FATAL")
  /\ UNCHANGED <<blocking, pc, connect_rc, in_data, banner_buf, banner_ret,
                 nrecv, appvars>>
  /\ UNCHANGED <<chanvars, callvars>>

\* ssh_channel_new_id: ++(session->maxchannel)
ssh_channel_new_id(s) == U32(s.maxchannel + 1)

\* channel_open, its first statements: the channel gets its local number
channel_open_id ==
  /\ session.maxchannel < MaxOpens
  /\ \E i \in DOMAIN session.channels :
       LET id == ssh_channel_new_id(session) IN
       /\ session' = [session EXCEPT !.maxchannel = id,
                                     !.channels[i].local_channel = id]
       /\ hist' = [hist EXCEPT !.ids = @ \cup {id}]
  /\ UNCHANGED <<blocking, pc, connect_rc, in_data, banner_buf, banner_ret,
                 nrecv, appvars, call>>
  /\ UNCHANGED chanvars

\* the list without its i-th entry
Without(list, i) == SubSeq(list, 1, i - 1) \o SubSeq(list, i + 1, Len(list))

\* ssh_channel_free: an OPEN channel of a live session is closed first (an
\* EOF, then a CLOSE if the EOF left), then the entry leaves the list
ssh_channel_free ==
  \E i \in DOMAIN session.channels, eof \in BOOLEAN, close \in BOOLEAN :
    /\ session' = [session EXCEPT !.channels = Without(@, i)]
    /\ IF session.alive # 0 /\ session.channels[i].state = "OPEN" /\ eof
         THEN /\ out_pkt' = [type |-> IF close THEN "CLOSE" ELSE "EOF",
                             len |-> 0]
              /\ send_seq' = (send_seq + IF close THEN 2 ELSE 1) % SeqMod
         ELSE NoEmit
    /\ hist' = [hist EXCEPT !.resolved = 0]
    /\ UNCHANGED <<blocking, pc, connect_rc, in_data, banner_buf, banner_ret,
                   nrecv, appvars, call, channel, w, sent_data>>

\* ssh_channel_from_local: the first entry of the list with this number, 0
\* for NULL
ssh_channel_from_local(s, id) ==
  IF \E i \in DOMAIN s.channels : s.channels[i].local_channel = id
    THEN CHOOSE i \in DOMAIN s.channels :
           /\ s.channels[i].local_channel = id
           /\ \A j \in DOMAIN s.channels :
                s.channels[j].local_channel = id => i <= j
    ELSE 0

\* channel_from_msg: short tells that the packet ends before the number
channel_from_msg(s, id, short) ==
  LET chan == IF short THEN 0 ELSE ssh_channel_from_local(s, id) IN
  [chan |-> chan,
   session |-> IF chan = 0 THEN ssh_set_error(s, "FATAL") ELSE s]

\* channel_rcv_change_window on the channel the message names; malformed
\* tells that the packet ends before the number of bytes
channel_rcv_change_window_msg ==
  /\ hist.msgs < MaxMessages
  /\ \E id \in MsgChannels, short \in BOOLEAN, malformed \in BOOLEAN,
        bytes \in 0..1 :
       LET r == channel_from_msg(session, id, short) IN
       /\ session' =
            IF r.chan = 0 \/ malformed
              THEN r.session
              ELSE [r.session EXCEPT
                      !.channels[r.chan].remote_window = U32(@ + bytes)]
       /\ hist' = [hist EXCEPT !.resolved = IF malformed THEN 0 ELSE r.chan,
                               !.msgs = @ + 1]
  /\ UNCHANGED <<blocking, pc, connect_rc, in_data, banner_buf, banner_ret,
                 nrecv, appvars, call>>
  /\ UNCHANGED chanvars

\* ssh_packet_channel_open_conf on the channel the message names
ssh_packet_channel_open_conf_msg ==
  /\ hist.msgs < MaxMessages
  /\ \E id \in MsgChannels, window \in 0..1 :
       LET chan == ssh_channel_from_local(session, id) IN
       /\ session' =
            IF chan = 0
              THEN ssh_set_error(session, "FATAL")
              ELSE [session EXCEPT !.channels[chan].remote_window = window,
                                   !.channels[chan].state = "OPEN"]
       /\ hist' = [hist EXCEPT !.resolved = chan, !.msgs = @ + 1]
  /\ UNCHANGED <<blocking, pc, connect_rc, in_data, banner_buf, banner_ret,
                 nrecv, appvars, call>>
  /\ UNCHANGED chanvars

\* an inbound channel message is dispatched to its handler
ChannelMessage ==
  \/ channel_rcv_change_window_msg
  \/ ssh_packet_channel_open_conf_msg

NextTable ==
  \/ ssh_channel_new
  \/ channel_open_id
  \/ ssh_channel_free
  \/ channel_rcv_change_window_msg
  \/ ssh_packet_channel_open_conf_msg

SpecTable == InitTable /\ [][NextTable]_vars

(***************************************************************************)
(* Properties of the handshake.                                            *)
(***************************************************************************)
Trace == session.trace
IsEv(i, e, t) == Trace[i].e = e /\ Trace[i].t = t
Earlier(i, e, t) == \E j \in 1..(i - 1) : IsEv(j, e, t)

\* C1: the current context is replaced by the next one only after the local
\* NEWKEYS has been sent and the peer's NEWKEYS has been received.
C1_SwapAfterBothNewkeys ==
  \A i \in DOMAIN Trace :
    Trace[i].e = "swap" =>
      Earlier(i, "send", "NEWKEYS") /\ Earlier(i, "recv", "NEWKEYS")

\* C2: every packet sent after the local NEWKEYS is protected with the new
\* context (1), also before the peer's NEWKEYS; every packet received up to
\* the peer's NEWKEYS is decoded with the old one (0).
C2_DirectionalActivation ==
  \A i \in DOMAIN Trace :
    /\ (Trace[i].e = "send" /\ Earlier(i, "send", "NEWKEYS")) =>
         Trace[i].k = NewSession.next_crypto
    /\ (Trace[i].e = "recv" /\ ~Earlier(i, "recv", "NEWKEYS")) =>
         Trace[i].k = NewSession.current_crypto

VerifyFailedIn(old, new) ==
  \E i \in (Len(old) + 1)..Len(new) :
    new[i].e = "verify" /\ new[i].t = "fail"

C4_VerifyBeforeNewkeysSend ==
  \A i \in DOMAIN Trace :
    IsEv(i, "send", "NEWKEYS") => Earlier(i, "verify", "ok")

\* C5: once control is back with the caller, a session in ERROR has its
\* socket closed and alive = 0.
C5_ErrorClosesTransport ==
  (pc = "caller" /\ session.session_state = "ERROR") =>
    (session.alive = 0 /\ session.socket = "closed")

\* index (0-based) of the first newline of buf, -1 if it has none
FirstNewline(buf) ==
  IF \E i \in DOMAIN buf : buf[i] = "\n"
    THEN (CHOOSE i \in DOMAIN buf :
            buf[i] = "\n" /\ \A j \in 1..(i - 1) : buf[j] # "\n") - 1
    ELSE -1

BannerAccepted(s) == \E i \in DOMAIN s.trace : s.trace[i].e = "banner"

\* C6: in SOCKET_CONNECTED the banner receiver accepts a line exactly when
\* its newline comes after at most 128 bytes, passing BANNER_RECEIVED and
\* returning newline-index+1; more than 128 bytes without a newline give
\* ERROR with nothing consumed; fewer bytes without a newline change
\* nothing and return 0.
C6_BannerReceiver ==
  [][(session.session_state = "SOCKET_CONNECTED" /\ banner_buf' # banner_buf)
     => LET buf == banner_buf'
            nl  == FirstNewline(buf)
        IN  /\ (nl >= 0 /\ nl <= 128) =>
                 /\ banner_ret' = nl + 1
                 /\ BannerAccepted(session')
                 /\ session'.session_state \in {"INITIAL_KEX", "ERROR"}
                 /\ in_data' = Drop(buf, nl + 1)
            /\ BannerAccepted(session') => (nl >= 0 /\ nl <= 128)
            /\ (nl = -1 /\ Len(buf) > 128) =>
                 /\ session'.session_state = "ERROR"
                 /\ banner_ret' = 0
                 /\ in_data' = buf
            /\ (nl = -1 /\ Len(buf) <= 128) =>
                 /\ session' = session
                 /\ banner_ret' = 0
                 /\ in_data' = buf]_vars

C6_Witness ==
  /\ FirstNewline(banner_buf) = 128
  /\ banner_ret = 129
  /\ session.session_state = "INITIAL_KEX"

(***************************************************************************)
(* Properties of the channel write.                                        *)
(***************************************************************************)
\* this step hands a DATA / EXTENDED_DATA segment to packet_send
SegmentSent ==
  /\ send_seq' # send_seq
  /\ out_pkt'.type \in {"DATA", "EXTENDED_DATA"}

\* the payload bytes of the segment this step sends
SegLen == Len(sent_data') - Len(sent_data)

\* C7: each segment of a channel write lowers the remote window by exactly
\* its payload bytes, in the integers: the window never passes below zero
\* and never wraps, whatever WINDOW_ADJUST messages came in between.
C7_WindowDecreasesBySegment ==
  [][SegmentSent =>
       /\ SegLen = out_pkt'.len
       /\ channel'.remote_window = channel.remote_window - SegLen
       /\ channel'.remote_window >= 0]_vars

C7_Witness ==
  /\ w.pc = "loop"
  /\ w.len > 0
  /\ Len(sent_data) > 0
  /\ channel.remote_window = 0
  /\ w.polled

\* C8: no segment carries more bytes than min(remote max packet - 10,
\* remote window at the moment of sending).
C8_SegmentWithinPacketAndWindow ==
  [][SegmentSent =>
       SegLen <= Min(channel.remote_maxpacket - HeaderAllowance,
                     channel.remote_window)]_vars

\* C9: a blocking write of L bytes goes on until it returns L, unless an
\* error occurs, when the peer keeps granting window.
C9_BlockingWriteCompletes ==
  (blocking /\ w.pc = "loop") ~>
    (w.pc = "idle" /\ (w.how = "error" \/ (w.how = "done" /\ w.rc = w.origlen)))

\* C10: the data fields of the segments of a write, in sending order, are
\* the bytes of the payload already consumed: while the write runs, what
\* was sent followed by what is left is the payload; when it returns
\* r >= 0 what was sent is the first r bytes; a write that runs to its end
\* returns the length of the payload.
C10_SegmentsArePrefix ==
  /\ w.pc \in {"loop", "wait", "flush"} =>
       /\ sent_data \o w.data = Payload(w.origlen)
       /\ Len(w.data) = w.len
  /\ (w.pc = "idle" /\ w.how \in {"out", "done", "error"} /\ w.rc >= 0) =>
       /\ w.rc <= w.origlen
       /\ sent_data = SubSeq(Payload(w.origlen), 1, w.rc)
  /\ (w.pc = "idle" /\ w.how = "done") => w.rc = w.origlen

C10_Witness ==
  /\ w.pc = "idle"
  /\ w.how = "done"
  /\ w.rc >= 3
  /\ channel.remote_maxpacket = HeaderAllowance + 1
  /\ sent_data = Payload(w.rc)

(***************************************************************************)
(* Properties of the receiving side of a channel.                          *)
(***************************************************************************)
\* the unread bytes of a stream (none when its buffer was freed)
Unread(ch, is_stderr) ==
  IF StreamBuffer(ch, is_stderr) = NoBuffer
    THEN 0 ELSE StreamBuffer(ch, is_stderr)

\* this step sends a WINDOW_ADJUST: the increment it carries, else 0
AdjustSent ==
  IF send_seq' # send_seq /\ out_pkt'.type = "WINDOW_ADJUST"
    THEN out_pkt'.len ELSE 0

C12_WindowWithinAdvertisedCredit ==
  /\ [][channel'.local_window
          = channel.local_window - (hist'.counted - hist.counted)
              + AdjustSent]_vars
  /\ []((call.fn = "read" /\ call.pc = "idle" /\ call.how = "read") =>
          channel.local_window <= hist.advertised - hist.received)

\* C12 amended: the same changes; after a read (and at any other time)
\* the window is the window advertised at the start plus the increments
\* sent minus the received bytes that were counted against the window:
\* bytes beyond the window in force and dropped messages are not counted.
C12_WindowMatchesCountedCredit ==
  /\ [][channel'.local_window
          = channel.local_window - (hist'.counted - hist.counted)
              + AdjustSent]_vars
  /\ [](channel.local_window = hist.advertised - hist.counted)

C12_Witness ==
  /\ call.fn = "read"
  /\ call.how = "read"
  /\ hist.counted > 0
  /\ hist.advertised > WINDOWBASE
  /\ channel.local_window < WINDOWBASE

\* C15: a CLOSE from the peer with unread bytes in a stream buffer leaves
\* the state as it is, sets delayed_close and marks the remote EOF; with
\* both buffers empty the state becomes CLOSED; remote EOF is set in both
\* cases.
C15_CloseDeferredWhileBuffered ==
  [][channel_rcv_close =>
       /\ channel'.remote_eof = 1
       /\ IF channel.stdout_buffer > 0 \/ channel.stderr_buffer > 0
            THEN /\ channel'.state = channel.state
                 /\ channel'.delayed_close = 1
            ELSE channel'.state = "CLOSED"]_vars

C15_Witness ==
  /\ channel.delayed_close = 1
  /\ channel.state = "OPEN"
  /\ channel.remote_eof = 1
  /\ channel.stderr_buffer > 0

\* C16: once reads have emptied both buffers of a channel whose close was
\* deferred, the channel is CLOSED.
C16_DeferredCloseTakesEffect ==
  (/\ channel.delayed_close = 1
   /\ channel.stdout_buffer = 0
   /\ channel.stderr_buffer = 0
   /\ call.fn = "read"
   /\ call.pc = "idle") => channel.state = "CLOSED"


(***************************************************************************)
(* Properties of the closing of a channel.                                 *)
(***************************************************************************)
\* C13: with local_eof set, send_eof and close emit nothing and change no
\* channel state; no channel ever emits more than one EOF.
C13_EofAndCloseIdempotent ==
  /\ [][(channel.local_eof # 0
           /\ (ssh_channel_send_eof \/ ssh_channel_close))
          => UNCHANGED <<channel, out_pkt, send_seq>>]_vars
  /\ [](hist.eof_msgs <= 1)

\* C14: a CLOSE is emitted only on a channel on which an EOF was sent with
\* success, and a close call on a channel not yet CLOSED leaves it CLOSED
\* exactly when its CLOSE was sent with success.
C14_CloseOnlyAfterEofSent ==
  /\ [](~hist.close_early)
  /\ [][(ssh_channel_close /\ channel.state # "CLOSED")
          => (channel'.state = "CLOSED"
                <=> (call'.rc = 0 /\ out_pkt'.type = "CLOSE"))]_vars


(***************************************************************************)
(* Properties of requests.                                                 *)
(***************************************************************************)
\* C17: a channel request issued from a callback while the request state
\* is PENDING fails, sends nothing and leaves the state PENDING; the first
\* request then returns what the peer's first SUCCESS / FAILURE says.
C17_NestedRequestRefused ==
  /\ [][(channel_request_nested /\ channel.request_state = "PENDING")
          => /\ hist'.nested = "refused"
             /\ UNCHANGED <<channel, out_pkt, send_seq>>]_vars
  /\ []((/\ call.fn = "channel_request"
         /\ call.pc = "idle"
         /\ call.how \in {"ACCEPTED", "DENIED", "NONE", "PENDING"}
         /\ hist.nested # "none")
          => /\ hist.reply = "SUCCESS" => (call.rc = 0 /\ call.how = "ACCEPTED")
             /\ hist.reply = "FAILURE" => (call.rc = -1 /\ call.how = "DENIED")
             /\ hist.reply # "none")

C17_Witness ==
  /\ call.fn = "channel_request"
  /\ call.pc = "idle"
  /\ hist.nested = "refused"
  /\ hist.reply = "SUCCESS"
  /\ call.rc = 0
  /\ channel.request_state = "NONE"

\* C18: when a global request has returned with an accepted, denied or
\* error outcome the session's global request state is NONE again.
C18_GlobalRequestStateReset ==
  (/\ call.fn = "global_request"
   /\ call.pc = "idle"
   /\ call.how \in {"ACCEPTED", "DENIED", "ERROR"})
    => session.global_req_state = "NONE"

C20_OpenSucceedsIffConfirmed ==
  (w.pc = "idle" /\ w.how = "open") =>
    /\ (w.rc = 0) <=> (hist.conf # <<>>)
    /\ (hist.conf # <<>>) =>
         /\ channel.state = "OPEN"
         /\ <<channel.remote_channel, channel.remote_window,
              channel.remote_maxpacket>> = hist.conf
    /\ (channel.state = "OPEN_DENIED") => (w.rc # 0)


(***************************************************************************)
(* Properties of the channel table.                                        *)
(***************************************************************************)
\* C21: an inbound channel message that names no channel of the table, or
\* that is malformed, puts the session in the ERROR state and marks it
\* non-alive.
C21_UnknownChannelIsFatal ==
  [][(ChannelMessage /\ hist'.resolved = 0)
      => (session'.session_state = "ERROR" /\ session'.alive = 0)]_vars

\* C29: the channels of the table have pairwise distinct local numbers,
\* each open hands out a number greater than all handed out before, and a
\* message is resolved to the one channel with its number, a channel an open
\* gave that number to.
C29_LocalIdsUniqueAndMonotonic ==
  /\ [](\A i, j \in DOMAIN session.channels :
          i # j => session.channels[i].local_channel
                     # session.channels[j].local_channel)
  /\ [][channel_open_id
         => \E id \in hist'.ids \ hist.ids : \A o \in hist.ids : id > o]_vars
  /\ [][(ChannelMessage /\ hist'.resolved # 0)
         => /\ session.channels[hist'.resolved].local_channel \in hist.ids
            /\ \A j \in DOMAIN session.channels :
                 session.channels[j].local_channel
                   = session.channels[hist'.resolved].local_channel
                 => j = hist'.resolved]_vars


(***************************************************************************)
(* Properties of the deadline of ssh_connect.                              *)
(***************************************************************************)
\* C22: an ssh_connect that returns before the handshake reached a terminal
\* state returns SSH_AGAIN and leaves the session as it was.
C22_ConnectTimeoutIsTryAgain ==
  [][(pc = "connect" /\ pc' = "caller" /\ ~ssh_connect_termination(session))
      => (connect_rc' = SSH_AGAIN /\ session' = session)]_vars


(***************************************************************************)
(* Properties of the output buffer.                                        *)
(***************************************************************************)
\* C23: a request that returns because its packet could not be built
\* leaves the session's output buffer empty.
C23_BuildFailureLeavesBufferEmpty ==
  (call.pc = "idle" /\ call.how = "oom") => session.out_buffer = 0


(***************************************************************************)
(* Properties of ssh_channel_select and ssh_select.                        *)
(***************************************************************************)
\* C24: ssh_channel_select returns SSH_EINTR when its select(2) was
\* interrupted by a signal, and only then.
C24_SelectInterruptedIsEintr ==
  [][ssh_channel_select_returns
      => ((call'.pc = "idle" /\ call'.rc = SSH_EINTR)
            <=> (hist'.select.rc = -1 /\ hist'.select.errno = "EINTR"))]_vars

\* C25: once the finite timeout of ssh_channel_select ran out, the call
\* returns to the caller: it does not go into select(2) again.
C25_SelectTimeoutReturns ==
  [][(ssh_channel_select_pass /\ hist.waited /\ hist.select.rc = 0)
      => (call'.pc = "idle")]_vars

\* C26: ssh_channel_select and ssh_select return a channel listed for
\* reading that has buffered data or has seen the remote EOF, without
\* calling select(2).
C26_BufferedChannelReturnedWithoutWait ==
  [][((ssh_channel_select_pass \/ ssh_select_pass)
        /\ "r" \in call.lists
        /\ (StreamBuffer(channel, 0) > 0 \/ StreamBuffer(channel, 1) > 0
              \/ channel.remote_eof # 0))
      => (call'.pc = "idle" /\ "r" \in call'.out /\ ~hist'.waited)]_vars


(***************************************************************************)
(* Properties of a write on a channel given its EOF or closed.             *)
(***************************************************************************)
\* C27: a write on a channel whose local EOF was sent, that is not OPEN or
\* whose close is delayed fails at once: it returns an error, sends no
\* packet and leaves the remote window as it is.
C27_WriteRefusedAfterEofOrClose ==
  [][(channel_write_enter
        /\ (channel.local_eof # 0 \/ channel.state # "OPEN"
              \/ channel.delayed_close # 0))
      => (/\ w'.pc = "idle"
          /\ w'.rc = -1
          /\ UNCHANGED <<out_pkt, send_seq, sent_data>>
          /\ channel'.remote_window = channel.remote_window)]_vars

\* a write of some bytes was refused on an OPEN channel whose close is
\* delayed
C27_Witness ==
  /\ w.pc = "idle"
  /\ w.how = "rejected"
  /\ w.origlen \in 1..MaxLen
  /\ channel.state = "OPEN"
  /\ channel.delayed_close # 0


(***************************************************************************)
(* Properties of the blocking read.                                        *)
(***************************************************************************)
\* this step returns from an ssh_channel_read that asked for some bytes
ReadReturns ==
  /\ call'.fn = "read"
  /\ call'.pc = "idle"
  /\ call'.how # "empty"
  /\ call' # call

\* C28: a blocking read of count > 0 bytes returns 0 only at the remote EOF
\* with the stream's buffer empty; otherwise it returns n bytes, 1 <= n <=
\* min(count, buffered), and takes exactly n bytes off the buffer.  A read
\* that fails is let through as long as it took nothing off the buffer.
C28_BlockingReadReturnsBufferedBytes ==
  [][(blocking /\ ReadReturns /\ call.pc = "read_loop")
      => LET before == Unread(channel, call.is_stderr)
             after  == Unread(channel', call.is_stderr)
         IN  \/ /\ call'.rc = 0
                /\ channel.remote_eof # 0
                /\ before = 0
                /\ after = 0
             \/ /\ call'.rc >= 1
                /\ call'.rc <= Min(call.count, before)
                /\ after = before - call'.rc
             \/ /\ call'.rc < 0
                /\ after = before]_vars

(***************************************************************************)
(* Properties of the DH sub-state machine.                                 *)
(***************************************************************************)
\* enum ssh_dh_state_e, in the order of its declaration
DhRank(state) ==
  CASE state = "INIT" -> 0
    [] state = "INIT_SENT" -> 1
    [] state = "NEWKEYS_SENT" -> 2
    [] state = "FINISHED" -> 3

\* the NEWKEYS packets the client has sent
NewkeysSent == {i \in DOMAIN Trace : IsEv(i, "send", "NEWKEYS")}

\* C30: the DH sub-state advances only along INIT -> INIT_SENT ->
\* NEWKEYS_SENT -> FINISHED, one step at a time, whatever the order of the
\* inbound KEXDH_REPLY and NEWKEYS, and the client sends its NEWKEYS at most
\* once in a key exchange.
C30_DhStateAdvancesStepwise ==
  /\ [][\/ session'.dh_handshake_state = session.dh_handshake_state
        \/ DhRank(session'.dh_handshake_state)
             = DhRank(session.dh_handshake_state) + 1]_vars
  /\ [](Cardinality(NewkeysSent) <= 1)

(***************************************************************************)
(* A session used again: ssh_connect entered with no call pending on a     *)
(* session that went through ssh_connect before.                           *)
(***************************************************************************)
\* session.trace and nrecv start again with the attempt; hist.connects
\* counts the attempts on the used session
ssh_connect_again ==
  /\ pc = "caller"
  /\ session.pending_call_state = "NONE"
  /\ session.session_state # "NONE"
  /\ hist.connects < MaxConnects
  /\ \E ret \in {SSH_OK, SSH_ERROR} :
       LET s1 == [session EXCEPT !.alive = 0,
                                 !.session_state = "CONNECTING",
                                 !.data_callback = "banner",
                                 !.trace = <<>>]
       IN  IF ret = SSH_ERROR
             THEN /\ session' = s1
                  /\ connect_rc' = SSH_ERROR
                  /\ pc' = "caller"
             ELSE /\ session' = [s1 EXCEPT !.alive = 1,
                                           !.socket = "connecting",
                                           !.pending_call_state = "CONNECT"]
                  /\ pc' = "connect"
                  /\ UNCHANGED connect_rc
  /\ hist' = [hist EXCEPT !.connects = @ + 1]
  /\ in_data' = <<>>
  /\ banner_buf' = <<>>
  /\ banner_ret' = 0
  /\ nrecv' = 0
  /\ UNCHANGED appvars
  /\ UNCHANGED <<blocking, call>>
  /\ UNCHANGED chanvars

NextReconnect ==
  \/ Next
  \/ ssh_connect_again

SpecReconnect == Init /\ [][NextReconnect]_vars

(***************************************************************************)
(* Properties of the client session state.                                 *)
(***************************************************************************)
\* enum ssh_session_state_e along the client's connection
StateRank(state) ==
  CASE state = "NONE" -> 0
    [] state = "CONNECTING" -> 1
    [] state = "SOCKET_CONNECTED" -> 2
    [] state = "BANNER_RECEIVED" -> 3
    [] state = "INITIAL_KEX" -> 4
    [] state = "KEXINIT_RECEIVED" -> 5
    [] state = "DH" -> 6
    [] state = "AUTHENTICATING" -> 7
    [] OTHER -> 8

\* the state stays, moves forward, or becomes ERROR or DISCONNECTED
MovesForward ==
  \/ session'.session_state \in {"ERROR", "DISCONNECTED"}
  \/ /\ session.session_state \notin {"ERROR", "DISCONNECTED"}
     /\ StateRank(session'.session_state) >= StateRank(session.session_state)

\* ssh_connect returns SSH_OK only in AUTHENTICATING, and the session is
\* AUTHENTICATING or connected only with the DH sub-state FINISHED
OkOnlyAuthenticating ==
  /\ [][(ssh_connect_leave /\ connect_rc' = SSH_OK)
          => session'.session_state = "AUTHENTICATING"]_vars
  /\ []((session.session_state = "AUTHENTICATING" \/ session.connected = 1)
          => session.dh_handshake_state = "FINISHED")

Lifecycle ==
  {<<"NOT_OPEN", "OPEN">>, <<"NOT_OPEN", "OPEN_DENIED">>,
   <<"OPEN", "CLOSED">>}

\* C32: a channel's state changes only along NOT_OPEN -> OPEN, NOT_OPEN ->
\* OPEN_DENIED and OPEN -> CLOSED; no inbound message and no call moves a
\* CLOSED or OPEN_DENIED channel back to OPEN or an OPEN channel to
\* OPEN_DENIED.
C32_ChannelStateFollowsLifecycle ==
  [][(channel'.state # channel.state)
       => (<<channel.state, channel'.state>> \in Lifecycle)]_vars

(***************************************************************************)
(* Properties of the window after a read.                                  *)
(***************************************************************************)
\* the end of ssh_channel_read with the window under the limit: the
\* WINDOW_ADJUST of the difference left and the window is WINDOWBASE, or
\* the read failed and the window is as it was
WindowRaisedOrError ==
  (ssh_channel_read_copy /\ call'.pc = "idle"
     /\ channel.local_window < WINDOWLIMIT)
    => \/ /\ call'.rc >= 1
          /\ out_pkt' = [type |-> "WINDOW_ADJUST",
                         len |-> WINDOWBASE - channel.local_window]
          /\ send_seq' # send_seq
          /\ channel'.local_window = WINDOWBASE
       \/ /\ call'.rc < 0
          /\ channel'.local_window = channel.local_window
          /\ UNCHANGED <<out_pkt, send_seq>>

ConnectReturns ==
  \/ pc = "connect" /\ pc' = "caller"
  \/ ssh_connect_enter /\ pc' = "caller"

\* C34: in nonblocking mode ssh_connect returns SSH_AGAIN while the
\* handshake has not reached ERROR, AUTHENTICATING or DISCONNECTED, and
\* keeps the pending-call state at CONNECT; a repeated ssh_connect resumes
\* the attempt without a new socket connection and without touching the
\* session state; the pending-call state is NONE exactly when ssh_connect
\* returns SSH_OK or SSH_ERROR.
C34_NonblockingConnectResumes ==
  [][/\ ConnectReturns
          => /\ (connect_rc' = SSH_AGAIN)
                  <=> (/\ ~blocking
                       /\ session.pending_call_state = "CONNECT"
                       /\ session'.session_state \notin
                            {"ERROR", "AUTHENTICATING", "DISCONNECTED"})
             /\ (connect_rc' = SSH_AGAIN)
                  => /\ session'.pending_call_state = "CONNECT"
                     /\ session'.session_state = session.session_state
             /\ (connect_rc' \in {SSH_OK, SSH_ERROR})
                  <=> (session'.pending_call_state = "NONE")
     /\ (ssh_connect_enter /\ session.pending_call_state = "CONNECT")
          => /\ pc' = "connect"
             /\ session' = session]_vars

\* a nonblocking ssh_connect that was told SSH_AGAIN is at work again
C34_Witness ==
  /\ ~blocking
  /\ pc = "connect"
  /\ connect_rc = SSH_AGAIN
  /\ session.pending_call_state = "CONNECT"
  /\ session.session_state = "DH"
  /\ session.socket = "open"

(***************************************************************************)
(* Properties of the request state of a channel.                           *)
(***************************************************************************)
\* C35: whenever channel_request has returned, whatever the outcome, the
\* channel's request state is NONE, so that a later request on the channel
\* is not refused for its state.
C35_RequestStateNoneAfterReturn ==
  (call.fn = "channel_request" /\ call.pc = "idle" /\ call.how # "refused")
    => channel.request_state = "NONE"

(***************************************************************************)
(* Properties of the segment size.                                         *)
(***************************************************************************)
\* C36: whatever maximum packet size the peer advertised in
\* OPEN_CONFIRMATION, 10 or less included, each segment of a channel write
\* carries at least 1 byte and no more bytes than that size.
C36_SegmentWithinMaxPacket ==
  [][SegmentSent =>
       /\ out_pkt'.len >= 1
       /\ out_pkt'.len <= channel.remote_maxpacket]_vars

(***************************************************************************)
(* Properties of the remote window.                                        *)
(***************************************************************************)
\* C37: a WINDOW_ADJUST never lowers the remote window: after the message
\* the window is the old value plus the increment the peer sent, in the
\* integers, for every increment.
C37_WindowAdjustAdds ==
  [][channel_rcv_change_window =>
       /\ channel'.remote_window >= channel.remote_window
       /\ (channel'.remote_window - channel.remote_window) \in Adjusts]_vars

(***************************************************************************)
(* Reads and requests on one channel: after the end of file a read does    *)
(* not pump the session any more, a waiting channel_request does.          *)
(***************************************************************************)
NextEof ==
  \/ channel_rcv_data
  \/ channel_rcv_eof
  \/ channel_rcv_close
  \/ ssh_channel_read_enter
  \/ ssh_channel_read_wait
  \/ ssh_channel_read_pumped
  \/ ssh_channel_read_copy
  \/ channel_request_enter
  \/ ssh_packet_channel_success
  \/ ssh_packet_channel_failure
  \/ channel_request_pumped

SpecEof == InitRequest /\ [][NextEof]_vars

(***************************************************************************)
(* Properties of the end of file.  hist.eof_read holds the streams on      *)
(* which a read has returned 0 at the remote end of file.                  *)
(***************************************************************************)
\* C38: once the remote EOF or CLOSE was seen and a read on a stream has
\* returned 0, no later DATA / EXTENDED_DATA adds bytes to the receive
\* buffer of that stream, so every later read on it returns 0 as well.
C38_EofIsStable ==
  \A is_stderr \in hist.eof_read :
    /\ channel.remote_eof # 0
    /\ StreamBuffer(channel, is_stderr) <= 0

(***************************************************************************)
(* ssh_bind: one bind object and the descriptor table of the process.      *)
(* socket(2) and accept(2) hand out the lowest descriptor that is free.    *)
(***************************************************************************)
Descriptors == 0..(MaxFds - 1)

FreeFds == Descriptors \ fds.open

LowestFree == CHOOSE d \in FreeFds : \A e \in FreeFds : d <= e

\* close(2) on descriptor d
close(f, d) ==
  IF d \in f.open
    THEN [f EXCEPT !.open = @ \ {d}, !.listening = @ \ {d},
                   !.app = @ \ {d}]
    ELSE [f EXCEPT !.ebadf = TRUE]

\* the library, the channel and the terminal are not involved
BindOnly ==
  /\ UNCHANGED <<session, blocking, pc, connect_rc, in_data, banner_buf,
                 banner_ret, nrecv, terminal>>
  /\ UNCHANGED <<chanvars, callvars>>

\* ssh_bind_listen: bind_socket fails (no descriptor is left behind), or
\* listen(2) fails on the new socket, or both succeed
ssh_bind_listen ==
  /\ ~sshbind.freed
  /\ \E outcome \in {"bind_failed", "listen_failed", "listening"} :
       IF outcome = "bind_failed" \/ FreeFds = {}
         THEN /\ sshbind' = [sshbind EXCEPT !.rc = -1, !.how = "bind_failed"]
              /\ UNCHANGED fds
         ELSE LET fd == LowestFree
                  opened == [fds EXCEPT !.open = @ \cup {fd}]
              IN  IF outcome = "listen_failed"
                    THEN /\ sshbind' = [sshbind EXCEPT
                                          !.bindfd = fd, !.rc = -1,
                                          !.how = "listen_failed"]
                         /\ fds' = close(opened, fd)
                    ELSE /\ sshbind' = [sshbind EXCEPT
                                          !.bindfd = fd, !.rc = 0,
                                          !.how = "listening"]
                         /\ fds' = [opened EXCEPT !.listening = @ \cup {fd}]
  /\ BindOnly

\* ssh_bind_accept with a session: keys tells whether a host key is set and
\* loads, conn whether accept(2) has a connection to hand out
ssh_bind_accept ==
  /\ ~sshbind.freed
  /\ \E keys \in BOOLEAN, conn \in BOOLEAN :
       IF sshbind.bindfd = SSH_INVALID_SOCKET
         THEN /\ keys /\ conn
              /\ sshbind' = [sshbind EXCEPT !.rc = -1, !.how = "not_bound"]
              /\ UNCHANGED fds
       ELSE IF ~keys
         THEN /\ conn
              /\ sshbind' = [sshbind EXCEPT !.rc = -1, !.how = "no_key"]
              /\ UNCHANGED fds
       ELSE IF sshbind.bindfd \notin fds.listening \/ ~conn \/ FreeFds = {}
         THEN /\ sshbind' = [sshbind EXCEPT !.rc = -1,
                                            !.how = "accept_failed"]
              /\ UNCHANGED fds
       ELSE /\ sshbind' = [sshbind EXCEPT !.rc = 0, !.how = "accepted"]
            /\ fds' = [fds EXCEPT !.open = @ \cup {LowestFree}]
  /\ BindOnly

\* ssh_bind_free: the descriptor is closed when it is not negative
ssh_bind_free ==
  /\ ~sshbind.freed
  /\ fds' = IF sshbind.bindfd >= 0
              THEN [close(fds, sshbind.bindfd) EXCEPT
                      !.stolen = @ \/ sshbind.bindfd \in fds.app]
              ELSE fds
  /\ sshbind' = [sshbind EXCEPT !.bindfd = SSH_INVALID_SOCKET,
                                !.freed = TRUE, !.rc = 0, !.how = "freed"]
  /\ BindOnly

\* the application opens a descriptor of its own
app_open ==
  /\ FreeFds # {}
  /\ fds' = [fds EXCEPT !.open = @ \cup {LowestFree},
                        !.app = @ \cup {LowestFree}]
  /\ UNCHANGED sshbind
  /\ BindOnly

\* the application closes one of its descriptors
app_close ==
  /\ \E d \in fds.app : fds' = close(fds, d)
  /\ UNCHANGED sshbind
  /\ BindOnly

NextBind ==
  \/ ssh_bind_listen
  \/ ssh_bind_accept
  \/ ssh_bind_free
  \/ app_open
  \/ app_close

SpecBind == Init /\ [][NextBind]_vars

\* C39: the bind object's bindfd is an open socket or SSH_INVALID_SOCKET:
\* after a failed ssh_bind_listen no closed descriptor is left in it, so
\* that ssh_bind_accept is refused as not bound and ssh_bind_free closes
\* each descriptor at most once.
C39_BindfdOpenOrInvalid ==
  /\ ~sshbind.freed
       => (sshbind.bindfd = SSH_INVALID_SOCKET \/ sshbind.bindfd \in fds.open)
  /\ ~fds.ebadf
  /\ ~fds.stolen

(***************************************************************************)
(* SSHTerminal over the session and channel wrappers.  A call that goes    *)
(* through a null m_channel or a freed ssh_channel has undefined           *)
(* behaviour: terminal.fault records it and nothing is modelled after it.  *)
(***************************************************************************)
\* the library and the bind object are not involved
TerminalOnly ==
  /\ UNCHANGED <<session, blocking, pc, connect_rc, in_data, banner_buf,
                 banner_ret, nrecv, sshbind, fds>>
  /\ UNCHANGED <<chanvars, callvars>>

\* what dereferencing m_channel meets
Deref(t) ==
  IF t.m_channel = "null" THEN "null"
  ELSE IF t.c_channel = "freed" THEN "freed"
  ELSE "none"

Called(t, fn, rc) ==
  [t EXCEPT !.fn = fn, !.rc = rc,
            !.refusable = t.m_channel = "null" \/ t.c_channel = "freed"
                            \/ ~t.open \/ t.eof]

Faulted(t, fn, fault) == [Called(t, fn, "undefined") EXCEPT !.fault = fault]

\* SSHTerminal::connect
terminal_connect ==
  /\ terminal.fault = "none"
  /\ \E args \in BOOLEAN, ok \in BOOLEAN :
       terminal' =
         IF terminal.connected \/ ~args
           THEN Called(terminal, "connect", "-1")
           ELSE [Called(terminal, "connect", "0") EXCEPT !.connected = ok]
  /\ TerminalOnly

\* SSHTerminal::disconnect: an open channel is closed and deleted, then the
\* session is disconnected, which frees the channels it still lists
terminal_disconnect ==
  /\ terminal.fault = "none"
  /\ terminal' =
       IF terminal.m_channel = "object" /\ terminal.c_channel = "freed"
         THEN Faulted(terminal, "disconnect", "freed")
         ELSE LET t1 == IF terminal.m_channel = "object" /\ terminal.open
                          THEN [terminal EXCEPT !.m_channel = "null",
                                                !.open = FALSE,
                                                !.eof = FALSE]
                          ELSE terminal
                  t2 == IF t1.connected
                          THEN [t1 EXCEPT
                                  !.connected = FALSE,
                                  !.open = FALSE,
                                  !.c_channel =
                                     IF t1.m_channel = "object"
                                       THEN "freed" ELSE @]
                          ELSE t1
              IN  Called(t2, "disconnect", "0")
  /\ TerminalOnly

\* SSHTerminal::userauthPassword
terminal_userauthPassword ==
  /\ terminal.fault = "none"
  /\ \E auth \in BOOLEAN, opened \in BOOLEAN :
       terminal' =
         IF terminal.m_channel = "object" /\ terminal.c_channel = "freed"
           THEN Faulted(terminal, "userauthPassword", "freed")
         ELSE IF terminal.m_channel = "object" /\ terminal.open
           THEN Called(terminal, "userauthPassword", "-1")
         ELSE IF ~auth \/ ~terminal.connected
           THEN Called(terminal, "userauthPassword", "-1")
         ELSE IF terminal.m_channel = "null"
           THEN Faulted(terminal, "userauthPassword", "null")
         ELSE [Called(terminal, "userauthPassword", "0") EXCEPT
                 !.open = opened, !.eof = FALSE]
  /\ TerminalOnly

\* the test of write and read: !m_channel && (!m_channel->isOpen() ||
\* m_channel->isEof()); TRUE when the method returns at once.  With a null
\* m_channel its second operand goes through the null pointer, which
\* write and read account for first; with an object it is FALSE
terminal_guard(t) == t.m_channel = "null" /\ (~t.open \/ t.eof)

\* SSHTerminal::write
terminal_write ==
  /\ terminal.fault = "none"
  /\ \E sent \in BOOLEAN :
       terminal' =
         IF ~terminal.connected THEN Called(terminal, "write", "-1")
         ELSE IF Deref(terminal) # "none"
           THEN Faulted(terminal, "write", Deref(terminal))
         ELSE IF terminal_guard(terminal)
           THEN Called(terminal, "write", "-1")
         ELSE IF ~terminal.open \/ ~sent
           THEN Called(terminal, "write", "-1")
         ELSE Called(terminal, "write", "1")
  /\ TerminalOnly

\* SSHTerminal::read
terminal_read ==
  /\ terminal.fault = "none"
  /\ \E data \in BOOLEAN :
       terminal' =
         IF ~terminal.connected
           THEN Called(terminal, "read", "SSH_CHANNEL_DISCONNECTED")
         ELSE IF Deref(terminal) # "none"
           THEN Faulted(terminal, "read", Deref(terminal))
         ELSE IF terminal_guard(terminal)
           THEN Called(terminal, "read", "SSH_CHANNEL_DISCONNECTED")
         ELSE IF terminal.open /\ ~terminal.eof /\ data
           THEN Called(terminal, "read", "data")
         ELSE Called(terminal, "read", "")
  /\ TerminalOnly

\* the peer ends its side of the channel, or closes the channel
terminal_peer ==
  /\ terminal.fault = "none"
  /\ terminal.connected
  /\ terminal.m_channel = "object"
  /\ terminal.c_channel = "valid"
  /\ terminal.open
  /\ \E close_it \in BOOLEAN :
       terminal' = [terminal EXCEPT !.eof = TRUE,
                                    !.open = ~close_it]
  /\ TerminalOnly

NextTerminal ==
  \/ terminal_connect
  \/ terminal_disconnect
  \/ terminal_userauthPassword
  \/ terminal_write
  \/ terminal_read
  \/ terminal_peer

SpecTerminal == Init /\ [][NextTerminal]_vars

\* C40: over any sequence of connect / userauthPassword / write / read /
\* disconnect the terminal never uses a channel object that is null or
\* destroyed; write returns -1 and read returns "SSH_CHANNEL_DISCONNECTED"
\* when the channel is absent, not open or at EOF.
C40_TerminalChannelValid ==
  /\ terminal.fault = "none"
  /\ (terminal.fn = "write" /\ terminal.refusable) => terminal.rc = "-1"
  /\ (terminal.fn = "read" /\ terminal.refusable)
       => terminal.rc = "SSH_CHANNEL_DISCONNECTED"

====
